---- MODULE Spec2Model ----
(***************************************************************************)
(* Futoshiki parallel solver: constraint kernel, pre-colouring, sequential *)
(* backtracker, work-unit enumeration, and the OpenMP / MPI / hybrid       *)
(* schedulers, modelled from src/src/common, src/src/openmp, src/src/mpi   *)
(* and src/src/hybrid.                                                     *)
(***************************************************************************)
EXTENDS Integers, Sequences, FiniteSets, TLC

(* ---------------- program constants ---------------- *)
EMPTY == 0
NO_CONS == 0
GREATER == 1
SMALLER == 2

(* ---------------- bounds of the model ---------------- *)
MaxSize == 2
MaxGivens == 2
MaxCons == 1
MaxProcs == 3
NumThreads == 2
MaxDenseGivens == 3
ScaledUnitLimit == 1

(* ---------------- puzzle model ---------------- *)
Cells(n) == (0..(n-1)) \X (0..(n-1))
HEdges(n) == (0..(n-1)) \X (0..(n-2))
VEdges(n) == (0..(n-2)) \X (0..(n-1))

RECURSIVE UpTo(_, _)
UpTo(S, k) ==
    IF k = 0 THEN {{}}
    ELSE LET prev == UpTo(S, k-1)
         IN prev \cup {p \cup {x} : p \in prev, x \in S}

Functional(s) == \A a \in s : \A b \in s : a[1] = b[1] => a = b

GivenSets(n) == {s \in UpTo(Cells(n) \X (1..n), MaxGivens) : Functional(s)}

(* boards with more pre-set cells, used without inequalities *)
DenseGivenSets(n) == {s \in UpTo(Cells(n) \X (1..n), MaxDenseGivens) : Functional(s)}

ConsSets(n) ==
    {s \in UpTo(((HEdges(n) \X {"h"}) \cup (VEdges(n) \X {"v"})) \X {GREATER, SMALLER}, MaxCons) :
        Functional(s)}

(* the scheduler specifications draw their puzzles from the sub-family whose givens lie
   in row 0 and whose inequality touches cell (0,0) *)
SchedGivenSets(n) == {s \in GivenSets(n) : \A p \in s : p[1][1] = 0}
SchedConsSets(n) == {s \in ConsSets(n) : \A p \in s : p[1][1] = <<0, 0>>}

BoardOf(n, g) ==
    [c \in Cells(n) |-> IF \E p \in g : p[1] = c
                        THEN (CHOOSE p \in g : p[1] = c)[2] ELSE EMPTY]

HConsOf(n, k) ==
    [e \in HEdges(n) |-> IF \E p \in k : p[1] = <<e, "h">>
                         THEN (CHOOSE p \in k : p[1] = <<e, "h">>)[2] ELSE NO_CONS]

VConsOf(n, k) ==
    [e \in VEdges(n) |-> IF \E p \in k : p[1] = <<e, "v">>
                         THEN (CHOOSE p \in k : p[1] = <<e, "v">>)[2] ELSE NO_CONS]

(* the Futoshiki struct right after parse_futoshiki: pc lists still empty *)
ParsedPuzzle(n, g, k) ==
    [size |-> n, board |-> BoardOf(n, g), h_cons |-> HConsOf(n, k),
     v_cons |-> VConsOf(n, k), pc_list |-> [c \in Cells(n) |-> << >>]]

(* ---------------- constraint kernel ---------------- *)
(* a test that scans only the column of the cell *)
safe_column_only(P, row, col, S, color) ==
    IF P.board[<<row, col>>] # EMPTY THEN P.board[<<row, col>>] = color
    ELSE \A i \in 0..(P.size - 1) : ~(i # row /\ S[<<i, col>>] = color)
safe(P, row, col, S, color) ==
    IF P.board[<<row, col>>] # EMPTY THEN P.board[<<row, col>>] = color
    ELSE
      /\ ~(col > 0 /\ P.h_cons[<<row, col-1>>] = GREATER
              /\ S[<<row, col-1>>] # EMPTY /\ S[<<row, col-1>>] <= color)
      /\ ~(col > 0 /\ P.h_cons[<<row, col-1>>] = SMALLER
              /\ S[<<row, col-1>>] # EMPTY /\ S[<<row, col-1>>] >= color)
      /\ ~(col < P.size - 1 /\ P.h_cons[<<row, col>>] = GREATER
              /\ S[<<row, col+1>>] # EMPTY /\ color <= S[<<row, col+1>>])
      /\ ~(col < P.size - 1 /\ P.h_cons[<<row, col>>] = SMALLER
              /\ S[<<row, col+1>>] # EMPTY /\ color >= S[<<row, col+1>>])
      /\ ~(row > 0 /\ P.v_cons[<<row-1, col>>] = GREATER
              /\ S[<<row-1, col>>] # EMPTY /\ S[<<row-1, col>>] <= color)
      /\ ~(row > 0 /\ P.v_cons[<<row-1, col>>] = SMALLER
              /\ S[<<row-1, col>>] # EMPTY /\ S[<<row-1, col>>] >= color)
      /\ ~(row < P.size - 1 /\ P.v_cons[<<row, col>>] = GREATER
              /\ S[<<row+1, col>>] # EMPTY /\ color <= S[<<row+1, col>>])
      /\ ~(row < P.size - 1 /\ P.v_cons[<<row, col>>] = SMALLER
              /\ S[<<row+1, col>>] # EMPTY /\ color >= S[<<row+1, col>>])
      /\ \A i \in 0..(P.size - 1) :
            /\ ~(i # col /\ S[<<row, i>>] = color)
            /\ ~(i # row /\ S[<<i, col>>] = color)

(* a test that asks every candidate of the neighbour to fit, not one of them *)
has_valid_neighbor_all_fit(P, row, col, color, need_greater) ==
    \A i \in 1..Len(P.pc_list[<<row, col>>]) :
        LET neighbor_color == P.pc_list[<<row, col>>][i]
        IN \/ (need_greater /\ neighbor_color > color)
           \/ (~need_greater /\ neighbor_color < color)
has_valid_neighbor(P, row, col, color, need_greater) ==
    \E i \in 1..Len(P.pc_list[<<row, col>>]) :
        LET neighbor_color == P.pc_list[<<row, col>>][i]
        IN \/ (need_greater /\ neighbor_color > color)
           \/ (~need_greater /\ neighbor_color < color)

satisfies_inequalities(P, row, col, color) ==
    /\ (col > 0 /\ P.h_cons[<<row, col-1>>] = GREATER)
          => has_valid_neighbor(P, row, col-1, color, TRUE)
    /\ (col > 0 /\ P.h_cons[<<row, col-1>>] = SMALLER)
          => has_valid_neighbor(P, row, col-1, color, FALSE)
    /\ (col < P.size - 1 /\ P.h_cons[<<row, col>>] = GREATER)
          => has_valid_neighbor(P, row, col+1, color, FALSE)
    /\ (col < P.size - 1 /\ P.h_cons[<<row, col>>] = SMALLER)
          => has_valid_neighbor(P, row, col+1, color, TRUE)
    /\ (row > 0 /\ P.v_cons[<<row-1, col>>] = GREATER)
          => has_valid_neighbor(P, row-1, col, color, TRUE)
    /\ (row > 0 /\ P.v_cons[<<row-1, col>>] = SMALLER)
          => has_valid_neighbor(P, row-1, col, color, FALSE)
    /\ (row < P.size - 1 /\ P.v_cons[<<row, col>>] = GREATER)
          => has_valid_neighbor(P, row+1, col, color, FALSE)
    /\ (row < P.size - 1 /\ P.v_cons[<<row, col>>] = SMALLER)
          => has_valid_neighbor(P, row+1, col, color, TRUE)

(* ---------------- pre-colouring ---------------- *)
RECURSIVE FilterFrom(_, _, _, _, _)
FilterFrom(P, row, col, i, acc) ==
    IF i > Len(P.pc_list[<<row, col>>]) THEN acc
    ELSE LET color == P.pc_list[<<row, col>>][i]
         IN FilterFrom(P, row, col, i + 1,
                       IF satisfies_inequalities(P, row, col, color)
                       THEN Append(acc, color) ELSE acc)

(* a filter that refills a list it finds empty instead of filtering it *)
filter_possible_colors_refilling_empty(P, row, col) ==
    IF P.board[<<row, col>>] # EMPTY
    THEN [P EXCEPT !.pc_list[<<row, col>>] = << P.board[<<row, col>>] >>]
    ELSE IF P.pc_list[<<row, col>>] = << >>
    THEN [P EXCEPT !.pc_list[<<row, col>>] = [i \in 1..P.size |-> i]]
    ELSE [P EXCEPT !.pc_list[<<row, col>>] = FilterFrom(P, row, col, 1, << >>)]
filter_possible_colors(P, row, col) ==
    IF P.board[<<row, col>>] # EMPTY
    THEN [P EXCEPT !.pc_list[<<row, col>>] = << P.board[<<row, col>>] >>]
    ELSE [P EXCEPT !.pc_list[<<row, col>>] = FilterFrom(P, row, col, 1, << >>)]

Without(s, color) == SelectSeq(s, LAMBDA x : x # color)

RECURSIVE UniqLoop(_, _, _, _, _)
UniqLoop(P, row, col, color, i) ==
    IF i >= P.size THEN P
    ELSE LET P1 == IF i # col
                   THEN [P EXCEPT !.pc_list[<<row, i>>] = Without(@, color)]
                   ELSE P
             P2 == IF i # row
                   THEN [P1 EXCEPT !.pc_list[<<i, col>>] = Without(@, color)]
                   ELSE P1
         IN UniqLoop(P2, row, col, color, i + 1)

(* a pass that propagates only the values of pre-set cells *)
process_uniqueness_of_givens(P, row, col) ==
    IF Len(P.pc_list[<<row, col>>]) = 1 /\ P.board[<<row, col>>] # EMPTY
    THEN UniqLoop(P, row, col, P.pc_list[<<row, col>>][1], 0)
    ELSE P
process_uniqueness(P, row, col) ==
    IF Len(P.pc_list[<<row, col>>]) = 1
    THEN UniqLoop(P, row, col, P.pc_list[<<row, col>>][1], 0)
    ELSE P

RECURSIVE AllColorsFrom(_, _, _)
AllColorsFrom(color, n, acc) ==
    IF color > n THEN acc ELSE AllColorsFrom(color + 1, n, Append(acc, color))

AllColors(n) == AllColorsFrom(1, n, << >>)

(* the initialisation without "pc_lengths[row][col] = 0": colours are appended to
   whatever list an earlier run left *)
InitPcLists_without_reset(P) ==
    [P EXCEPT !.pc_list =
        [c \in Cells(P.size) |->
            IF P.board[c] # EMPTY THEN << P.board[c] >>
            ELSE P.pc_list[c] \o AllColors(P.size)]]
InitPcLists(P) ==
    [P EXCEPT !.pc_list =
        [c \in Cells(P.size) |->
            IF P.board[c] # EMPTY THEN << P.board[c] >>
            ELSE AllColors(P.size)]]

(* one pass of the "Process each cell" loops, cell index k = row*size+col *)
RECURSIVE PcRound(_, _, _)
PcRound(P, k, removed) ==
    IF k >= P.size * P.size THEN [puzzle |-> P, removed |-> removed]
    ELSE LET row == k \div P.size
             col == k % P.size
             before_length == Len(P.pc_list[<<row, col>>])
             P2 == process_uniqueness(filter_possible_colors(P, row, col), row, col)
         IN PcRound(P2, k + 1, removed + before_length - Len(P2.pc_list[<<row, col>>]))

Lengths(P) == [c \in Cells(P.size) |-> Len(P.pc_list[c])]

RECURSIVE PcLoop(_, _)
PcLoop(P, removed) ==
    LET r == PcRound(P, 0, removed)
    IN IF Lengths(r.puzzle) # Lengths(P) THEN PcLoop(r.puzzle, r.removed) ELSE r

compute_pc_lists(P, use_precoloring) ==
    IF use_precoloring THEN PcLoop(InitPcLists(P), 0)
    ELSE [puzzle |-> InitPcLists(P), removed |-> 0]

(* ---------------- sequential backtracker ---------------- *)
(* a backtracker that leaves the tried colour in the cell *)
keep_color(S, row, col) == S
(* "solution[row][col] = EMPTY;  // Backtrack" *)
backtrack(S, row, col) == [S EXCEPT ![<<row, col>>] = EMPTY]

RECURSIVE color_g_seq(_, _, _, _)
RECURSIVE TryColors(_, _, _, _, _)
color_g_seq(P, S, row, col) ==
    IF row >= P.size THEN [ok |-> TRUE, sol |-> S]
    ELSE IF col >= P.size THEN color_g_seq(P, S, row + 1, 0)
    ELSE IF P.board[<<row, col>>] # EMPTY
         THEN color_g_seq(P, [S EXCEPT ![<<row, col>>] = P.board[<<row, col>>]], row, col + 1)
    ELSE TryColors(P, S, row, col, 1)

TryColors(P, S, row, col, i) ==
    IF i > Len(P.pc_list[<<row, col>>]) THEN [ok |-> FALSE, sol |-> S]
    ELSE LET color == P.pc_list[<<row, col>>][i]
         IN IF safe(P, row, col, S, color)
            THEN LET r == color_g_seq(P, [S EXCEPT ![<<row, col>>] = color], row, col + 1)
                 IN IF r.ok THEN r
                    ELSE TryColors(P, backtrack(r.sol, row, col), row, col, i + 1)
            ELSE TryColors(P, S, row, col, i + 1)


(* ---------------- work-unit enumeration (common/parallel.c) ---------------- *)
WORK_UNIT_LIMIT == 100000
MPI_UNIT_LIMIT == 10000
OMP_UNIT_LIMIT == 10000

RECURSIVE EmptyFrom(_, _, _)
EmptyFrom(P, k, acc) ==
    IF k >= P.size * P.size THEN acc
    ELSE EmptyFrom(P, k + 1,
                   IF P.board[<<k \div P.size, k % P.size>>] = EMPTY
                   THEN Append(acc, <<k \div P.size, k % P.size>>) ELSE acc)

find_empty_cells(P) == EmptyFrom(P, 0, << >>)

RECURSIVE count_valid_assignments_recursive(_, _, _, _, _, _)
RECURSIVE CountColors(_, _, _, _, _, _, _)
(* a count that returns 0 when the empty cells run out before target_depth *)
count_valid_assignments_zero_at_end(P, S, empty_cells, num_empty_cells, current_cell_idx, target_depth) ==
    IF current_cell_idx >= target_depth THEN 1
    ELSE IF current_cell_idx >= num_empty_cells THEN 0
    ELSE CountColors(P, S, empty_cells, num_empty_cells, current_cell_idx, target_depth, 1)
count_valid_assignments_recursive(P, S, empty_cells, num_empty_cells, current_cell_idx, target_depth) ==
    IF current_cell_idx >= target_depth THEN 1
    ELSE IF current_cell_idx >= num_empty_cells THEN 1
    ELSE CountColors(P, S, empty_cells, num_empty_cells, current_cell_idx, target_depth, 1)

CountColors(P, S, empty_cells, num_empty_cells, current_cell_idx, target_depth, i) ==
    LET row == empty_cells[current_cell_idx + 1][1]
        col == empty_cells[current_cell_idx + 1][2]
    IN IF i > Len(P.pc_list[<<row, col>>]) THEN 0
       ELSE LET color == P.pc_list[<<row, col>>][i]
            IN (IF safe(P, row, col, S, color)
                THEN count_valid_assignments_recursive(
                         P, [S EXCEPT ![<<row, col>>] = color], empty_cells,
                         num_empty_cells, current_cell_idx + 1, target_depth)
                ELSE 0)
               + CountColors(P, S, empty_cells, num_empty_cells, current_cell_idx,
                             target_depth, i + 1)

(* the "for d = 1 .. limit" loop shared by both calibrators; returns chosen_depth *)
RECURSIVE DepthLoop(_, _, _, _, _)
DepthLoop(P, empty_cells, num_workers, d, limit) ==
    IF d > limit THEN d - 1
    ELSE IF count_valid_assignments_recursive(P, P.board, empty_cells, Len(empty_cells), 0, d)
              > num_workers
         THEN d
         ELSE DepthLoop(P, empty_cells, num_workers, d + 1, limit)

(* common/parallel.c *)
calculate_distribution_depth(P, num_workers) ==
    IF num_workers <= 0 THEN 0
    ELSE LET empty_cells == find_empty_cells(P)
         IN IF Len(empty_cells) = 0 THEN 0
            ELSE DepthLoop(P, empty_cells, num_workers, 1, Len(empty_cells))

max_depth(size) == IF size > 15 THEN 3 ELSE IF size > 9 THEN 4 ELSE 5

Min(a, b) == IF a < b THEN a ELSE b

(* mpi/futoshiki_mpi.c: the same loop, capped by max_depth *)
mpi_calculate_distribution_depth(P, num_workers) ==
    IF num_workers <= 0 THEN 0
    ELSE LET empty_cells == find_empty_cells(P)
         IN IF Len(empty_cells) = 0 THEN 0
            ELSE DepthLoop(P, empty_cells, num_workers, 1,
                           Min(Len(empty_cells), max_depth(P.size)))

(* the "Find next empty cell" while loop *)
RECURSIVE NextEmpty(_, _, _, _)
NextEmpty(P, S, row, col) ==
    IF row >= P.size THEN <<row, col>>
    ELSE IF col >= P.size THEN NextEmpty(P, S, row + 1, 0)
    ELSE IF P.board[<<row, col>>] = EMPTY /\ S[<<row, col>>] = EMPTY THEN <<row, col>>
    ELSE NextEmpty(P, S, row, col + 1)

(* an enumerator whose colour loop stops one short of the last colour *)
unit_color_below_size(P, row, col, S, color) == safe(P, row, col, S, color) /\ color < P.size
(* an enumerator that extends a prefix without asking safe *)
unit_color_any(P, row, col, S, color) == TRUE
(* "if (safe(puzzle, row, col, solution, color))" in the enumerator's colour loop *)
unit_color_ok(P, row, col, S, color) == safe(P, row, col, S, color)

(* a safety limit tested one unit too late *)
cap_reached_late(units, limit) == Len(units) > limit
(* the "Safety limit" test at the head of the enumerator: *unit_count >= limit *)
cap_reached(units, limit) == Len(units) >= limit

RECURSIVE generate_work_units_recursive(_, _, _, _, _, _, _, _, _)
RECURSIVE GenColors(_, _, _, _, _, _, _, _, _, _)
generate_work_units_recursive(P, S, units, current_depth, target_depth, assignments, row, col, limit) ==
    IF cap_reached(units, limit) THEN units
    ELSE LET pos == NextEmpty(P, S, row, col)
         IN IF current_depth >= target_depth \/ pos[1] >= P.size
            THEN Append(units, [depth |-> current_depth,
                                assignments |-> SubSeq(assignments, 1, current_depth)])
            ELSE GenColors(P, S, units, current_depth, target_depth, assignments,
                           pos[1], pos[2], 1, limit)

GenColors(P, S, units, current_depth, target_depth, assignments, row, col, i, limit) ==
    IF i > Len(P.pc_list[<<row, col>>]) THEN units
    ELSE LET color == P.pc_list[<<row, col>>][i]
             units2 == IF unit_color_ok(P, row, col, S, color)
                       THEN generate_work_units_recursive(
                              P, [S EXCEPT ![<<row, col>>] = color], units,
                              current_depth + 1, target_depth,
                              Append(SubSeq(assignments, 1, current_depth), <<row, col, color>>),
                              row, col + 1, limit)
                       ELSE units
         IN GenColors(P, S, units2, current_depth, target_depth, assignments, row, col,
                      i + 1, limit)

(* an enumeration in which every pre-set cell uses up one level of the target depth *)
generate_work_units_givens_use_depth(P, depth, limit) ==
    generate_work_units_recursive(P, P.board, << >>, 0,
        depth - (P.size * P.size - Len(find_empty_cells(P))), << >>, 0, 0, limit)
generate_work_units(P, depth, limit) ==
    generate_work_units_recursive(P, P.board, << >>, 0, depth, << >>, 0, 0, limit)

RECURSIVE ApplyFrom(_, _, _)
ApplyFrom(S, work_unit, i) ==
    IF i > work_unit.depth THEN S
    ELSE ApplyFrom([S EXCEPT ![<<work_unit.assignments[i][1], work_unit.assignments[i][2]>>]
                                 = work_unit.assignments[i][3]],
                   work_unit, i + 1)

apply_work_unit(P, work_unit) == ApplyFrom(P.board, work_unit, 1)

get_continuation_point(work_unit) ==
    IF work_unit.depth > 0
    THEN <<work_unit.assignments[work_unit.depth][1],
           work_unit.assignments[work_unit.depth][2] + 1>>
    ELSE <<0, 0>>

(* a worker's handling of one unit: apply, find continuation, run C4 *)
SolveUnit(P, work_unit) ==
    LET start == get_continuation_point(work_unit)
    IN color_g_seq(P, apply_work_unit(P, work_unit), start[1], start[2])


(* ---------------- OpenMP-local calibrator (openmp/futoshiki_omp.c) ---------------- *)
RECURSIVE SumLengths(_, _, _)
SumLengths(P, empty_cells, k) ==
    IF k = 0 THEN 0
    ELSE Len(P.pc_list[empty_cells[k]]) + SumLengths(P, empty_cells, k - 1)

(* the inner "estimated_tasks *= avg_colors" loop with its early break *)
RECURSIVE EstimateTasks(_, _, _, _, _)
EstimateTasks(avg_colors, depth, target_tasks, i, estimated_tasks) ==
    IF i >= depth THEN estimated_tasks
    ELSE LET e == estimated_tasks * avg_colors
         IN IF e > target_tasks * 10 THEN e
            ELSE EstimateTasks(avg_colors, depth, target_tasks, i + 1, e)

RECURSIVE TaskDepthLoop(_, _, _, _, _)
TaskDepthLoop(P, empty_cells, target_tasks, depth, limit) ==
    IF depth > limit THEN depth
    ELSE LET avg_colors == SumLengths(P, empty_cells, depth) \div depth
         IN IF EstimateTasks(avg_colors, depth, target_tasks, 0, 1) >= target_tasks
            THEN depth
            ELSE TaskDepthLoop(P, empty_cells, target_tasks, depth + 1, limit)

calculate_task_depth(P, target_tasks) ==
    LET empty_cells == find_empty_cells(P)
    IN IF Len(empty_cells) = 0 THEN 0
       ELSE TaskDepthLoop(P, empty_cells, target_tasks, 1,
                          Min(Len(empty_cells), max_depth(P.size)))

(* ---------------- hybrid worker-side solve (hybrid/futoshiki_hybrid.c) ---------------- *)
G_MPI_TASK_FACTOR == 1
G_OMP_TASK_FACTOR == 1

Max(a, b) == IF a > b THEN a ELSE b

(* T = max(1, ceil(W * f)), f = fnum / fden *)
get_target_tasks(num_workers, fnum, fden) ==
    Max(1, (num_workers * fnum + fden - 1) \div fden)

WholePuzzleUnit == [depth |-> 0, assignments |-> << >>]

(* solve_work_unit_omp: the set of (found, solution) pairs its task pool can return;
   buf is the caller's solution buffer, left alone when no task succeeds *)
solve_work_unit_omp(P, received_wu, buf) ==
    LET sub_puzzle == [P EXCEPT !.board = apply_work_unit(P, received_wu)]
        target_tasks == get_target_tasks(NumThreads, G_OMP_TASK_FACTOR, 1)
        depth == calculate_distribution_depth(sub_puzzle, target_tasks)
        start == get_continuation_point(received_wu)
        omp_work_units == generate_work_units(sub_puzzle, depth, WORK_UNIT_LIMIT)
        winners == {i \in 1..Len(omp_work_units) : SolveUnit(sub_puzzle, omp_work_units[i]).ok}
    IN IF depth = 0 \/ Len(omp_work_units) = 0
       THEN {color_g_seq(sub_puzzle, sub_puzzle.board, start[1], start[2])}
       ELSE IF winners = {} THEN {[ok |-> FALSE, sol |-> buf]}
       ELSE {SolveUnit(sub_puzzle, omp_work_units[i]) : i \in winners}

(* ---------------- what a valid solution is ---------------- *)
ValidSolution(P, G) ==
    /\ \A c \in Cells(P.size) : G[c] \in 1..P.size
    /\ \A c \in Cells(P.size) : P.board[c] # EMPTY => G[c] = P.board[c]
    /\ \A c \in Cells(P.size) : \A d \in Cells(P.size) :
          (c # d /\ (c[1] = d[1] \/ c[2] = d[2])) => G[c] # G[d]
    /\ \A e \in HEdges(P.size) :
          /\ P.h_cons[e] = GREATER => G[e] > G[<<e[1], e[2] + 1>>]
          /\ P.h_cons[e] = SMALLER => G[e] < G[<<e[1], e[2] + 1>>]
    /\ \A e \in VEdges(P.size) :
          /\ P.v_cons[e] = GREATER => G[e] > G[<<e[1] + 1, e[2]>>]
          /\ P.v_cons[e] = SMALLER => G[e] < G[<<e[1] + 1, e[2]>>]

Perms(n) == {f \in [0..(n-1) -> 1..n] : \A a \in 0..(n-1) : \A b \in 0..(n-1) : f[a] = f[b] => a = b}

(* every grid whose rows and columns are permutations of 1..n *)
LatinGrids(n) ==
    {[c \in Cells(n) |-> rows[c[1]][c[2]]] :
        rows \in {q \in [0..(n-1) -> Perms(n)] :
                    \A a \in 0..(n-1) : \A b \in 0..(n-1) : \A c \in 0..(n-1) :
                        q[a][c] = q[b][c] => a = b}}

LatinGridsBySize == [n \in 1..MaxSize |-> LatinGrids(n)]

SolutionsOf(P) == {G \in LatinGridsBySize[P.size] : ValidSolution(P, G)}

Satisfiable(P) == SolutionsOf(P) # {}

(* ---------------- solver state ---------------- *)
VARIABLES
    sched,            \* which executable runs: "seq", "omp", "mpi", "hybrid"
    nprocs,           \* g_mpi_size
    sync_send,        \* whether MPI_Send completes only once the message is received
    use_precoloring,  \* the -n switch
    puzzle,           \* the Futoshiki struct after compute_pc_lists
    colors_removed,   \* stats.colors_removed
    mpc,              \* position of rank 0 (or of the only process)
    work_units,       \* the generated unit list
    next_unit,        \* master: index of the next unit to hand out
    found_solution,   \* master / OpenMP shared flag
    active_workers,   \* master: workers not yet terminated
    solution,         \* the caller's solution grid
    msrc,             \* master: the worker whose SOLUTION_DATA it is receiving
    mkeep,            \* master: whether that SOLUTION_DATA goes into solution
    result,           \* what color_g returned on rank 0
    wpc,              \* position of every worker process
    wsol,             \* every worker's local solution grid
    toMaster,         \* messages in flight, worker -> master, one FIFO per worker
    toWorker,         \* messages in flight, master -> worker
    term_sent,        \* workers the master has sent TERMINATE to
    omp_i,            \* OpenMP spawn loop index
    tpc,              \* position of every OpenMP task
    tlocal            \* every OpenMP task's local_solution

vars == <<sched, nprocs, sync_send, use_precoloring, puzzle, colors_removed, mpc, work_units,
          next_unit, found_solution, active_workers, solution, msrc, mkeep, result, wpc, wsol,
          toMaster, toWorker, term_sent, omp_i, tpc, tlocal>>

masterVars == <<mpc, work_units, next_unit, found_solution, active_workers, solution, msrc,
                mkeep, result, term_sent>>
ompVars == <<omp_i, tpc, tlocal>>
inputVars == <<sched, nprocs, sync_send, use_precoloring, puzzle, colors_removed>>

Workers == 1..(nprocs - 1)
ZeroGrid(n) == [c \in Cells(n) |-> 0]

InitFor(schedulers, whole_family) ==
    /\ sched \in schedulers
    /\ nprocs \in (IF sched \in {"mpi", "hybrid"} THEN 1..MaxProcs ELSE {1})
    /\ sync_send \in (IF sched \in {"mpi", "hybrid"} /\ nprocs > 1 THEN BOOLEAN ELSE {FALSE})
    /\ use_precoloring \in BOOLEAN
    /\ \E n \in 1..MaxSize :
       \E g \in (IF whole_family THEN GivenSets(n) ELSE SchedGivenSets(n)) :
       \E k \in (IF whole_family THEN ConsSets(n) ELSE SchedConsSets(n)) :
          LET pc == compute_pc_lists(ParsedPuzzle(n, g, k), use_precoloring)
          IN /\ puzzle = pc.puzzle
             /\ colors_removed = pc.removed
    /\ mpc = "start"
    /\ work_units = << >>
    /\ next_unit = 0
    /\ found_solution = FALSE
    /\ active_workers = 0
    /\ solution = ZeroGrid(puzzle.size)
    /\ msrc = 0
    /\ mkeep = FALSE
    /\ result = [done |-> FALSE, found |-> FALSE]
    /\ wpc = [w \in Workers |-> "start"]
    /\ wsol = [w \in Workers |-> ZeroGrid(puzzle.size)]
    /\ toMaster = [w \in Workers |-> << >>]
    /\ toWorker = [w \in Workers |-> << >>]
    /\ term_sent = {}
    /\ omp_i = 0
    /\ tpc = << >>
    /\ tlocal = << >>

Init == InitFor({"seq", "omp", "mpi", "hybrid"}, FALSE)

(* ---------------- sequential executable ---------------- *)
(* sequential/futoshiki_seq.c color_g: copy the board, run color_g_seq from (0,0) *)
seq_color_g ==
    /\ sched = "seq" /\ mpc = "start"
    /\ LET r == color_g_seq(puzzle, puzzle.board, 0, 0)
       IN /\ solution' = r.sol
          /\ result' = [done |-> TRUE, found |-> r.ok]
    /\ mpc' = "done"
    /\ UNCHANGED <<inputVars, work_units, next_unit, found_solution, active_workers, msrc,
                   mkeep, wpc, wsol, toMaster, toWorker, term_sent, ompVars>>

(* ---------------- message passing ---------------- *)
Msg(tag, body) == [tag |-> tag, body |-> body]
HasTag(q, tags) == \E i \in 1..Len(q) : q[i].tag \in tags
FirstWith(q, tags) == CHOOSE i \in 1..Len(q) : q[i].tag \in tags /\ \A j \in 1..(i-1) : q[j].tag \notin tags
RemoveAt(q, i) == SubSeq(q, 1, i - 1) \o SubSeq(q, i + 1, Len(q))
AnyTag == {"WORK_REQUEST", "SOLUTION_FOUND", "SOLUTION_DATA", "TERMINATE", "WORK_ASSIGNMENT"}

(* a blocking MPI_Send of the master has returned *)
MasterSendsComplete == ~sync_send \/ \A w \in Workers : toWorker[w] = << >>
(* a blocking MPI_Send of worker w has returned *)
WorkerSendsComplete(w) == ~sync_send \/ toMaster[w] = << >>

(* ---------------- MPI scheduler (mpi/futoshiki_mpi.c) ---------------- *)
(* color_g with g_mpi_size == 1 *)
mpi_color_g_single ==
    /\ sched = "mpi" /\ nprocs = 1 /\ mpc = "start"
    /\ LET r == color_g_seq(puzzle, puzzle.board, 0, 0)
       IN /\ solution' = r.sol
          /\ result' = [done |-> TRUE, found |-> r.ok]
    /\ mpc' = "done"
    /\ UNCHANGED <<inputVars, work_units, next_unit, found_solution, active_workers, msrc,
                   mkeep, wpc, wsol, toMaster, toWorker, term_sent, ompVars>>

(* mpi_master up to the distribution loop *)
mpi_master_start ==
    /\ sched = "mpi" /\ nprocs > 1 /\ mpc = "start"
    /\ LET depth == mpi_calculate_distribution_depth(puzzle, nprocs - 1)
           units == generate_work_units(puzzle, depth, MPI_UNIT_LIMIT)
       IN IF Len(units) = 0
          THEN LET r == color_g_seq(puzzle, puzzle.board, 0, 0)
               IN /\ solution' = r.sol
                  /\ result' = [done |-> TRUE, found |-> r.ok]
                  /\ mpc' = "done"
                  /\ UNCHANGED <<work_units, next_unit, found_solution, active_workers>>
          ELSE /\ work_units' = units
               /\ next_unit' = 0
               /\ found_solution' = FALSE
               /\ active_workers' = nprocs - 1
               /\ mpc' = "loop"
               /\ UNCHANGED <<solution, result>>
    /\ UNCHANGED <<inputVars, msrc, mkeep, wpc, wsol, toMaster, toWorker, term_sent, ompVars>>

(* mpi_master's unit generation with the safety limit scaled down to ScaledUnitLimit *)
mpi_master_start_scaled ==
    /\ sched = "mpi" /\ nprocs > 1 /\ mpc = "start"
    /\ LET depth == mpi_calculate_distribution_depth(puzzle, nprocs - 1)
           units == generate_work_units(puzzle, depth, ScaledUnitLimit)
       IN IF Len(units) = 0
          THEN LET r == color_g_seq(puzzle, puzzle.board, 0, 0)
               IN /\ solution' = r.sol
                  /\ result' = [done |-> TRUE, found |-> r.ok]
                  /\ mpc' = "done"
                  /\ UNCHANGED <<work_units, next_unit, found_solution, active_workers>>
          ELSE /\ work_units' = units
               /\ next_unit' = 0
               /\ found_solution' = FALSE
               /\ active_workers' = nprocs - 1
               /\ mpc' = "loop"
               /\ UNCHANGED <<solution, result>>
    /\ UNCHANGED <<inputVars, msrc, mkeep, wpc, wsol, toMaster, toWorker, term_sent, ompVars>>


(* a master that sends TERMINATE without counting it *)
active_workers_not_counted == active_workers
(* "active_workers--" after a TERMINATE has been sent *)
active_workers_after_terminate == active_workers - 1

(* a master that forgets "next_unit++" *)
mpi_next_unit_unchanged == next_unit
(* "next_unit++" after a WORK_ASSIGNMENT has been sent *)
mpi_next_unit_after_assignment == next_unit + 1

(* one iteration of mpi_master's while loop, up to its next blocking receive *)
mpi_master_recv(w) ==
    /\ sched = "mpi" /\ mpc = "loop" /\ active_workers > 0
    /\ MasterSendsComplete
    /\ HasTag(toMaster[w], {"WORK_REQUEST"})
    /\ LET i == FirstWith(toMaster[w], {"WORK_REQUEST"})
           worker_found_solution == toMaster[w][i].body
       IN /\ toMaster' = [toMaster EXCEPT ![w] = RemoveAt(@, i)]
          /\ IF found_solution
             THEN /\ toWorker' = [toWorker EXCEPT ![w] = Append(@, Msg("TERMINATE", 0))]
                  /\ term_sent' = term_sent \cup {w}
                  /\ active_workers' = active_workers_after_terminate
                  /\ UNCHANGED <<found_solution, mpc, msrc, mkeep, next_unit>>
             ELSE IF worker_found_solution
             THEN /\ found_solution' = TRUE
                  /\ mpc' = "recv_data"
                  /\ msrc' = w
                  /\ mkeep' = TRUE
                  /\ UNCHANGED <<toWorker, term_sent, active_workers, next_unit>>
             ELSE IF next_unit < Len(work_units)
             THEN /\ toWorker' = [toWorker EXCEPT ![w] =
                                     Append(@, Msg("WORK_ASSIGNMENT", work_units[next_unit + 1]))]
                  /\ next_unit' = mpi_next_unit_after_assignment
                  /\ UNCHANGED <<found_solution, mpc, msrc, mkeep, term_sent, active_workers>>
             ELSE /\ toWorker' = [toWorker EXCEPT ![w] = Append(@, Msg("TERMINATE", 0))]
                  /\ term_sent' = term_sent \cup {w}
                  /\ active_workers' = active_workers_after_terminate
                  /\ UNCHANGED <<found_solution, mpc, msrc, mkeep, next_unit>>
    /\ UNCHANGED <<inputVars, work_units, solution, result, wpc, wsol, ompVars>>

(* the master's MPI_Recv of SOLUTION_DATA and the TERMINATE that follows it *)
mpi_master_recv_data ==
    /\ sched = "mpi" /\ mpc = "recv_data"
    /\ HasTag(toMaster[msrc], {"SOLUTION_DATA"})
    /\ LET i == FirstWith(toMaster[msrc], {"SOLUTION_DATA"})
       IN /\ solution' = toMaster[msrc][i].body
          /\ toMaster' = [toMaster EXCEPT ![msrc] = RemoveAt(@, i)]
    /\ toWorker' = [toWorker EXCEPT ![msrc] = Append(@, Msg("TERMINATE", 0))]
    /\ term_sent' = term_sent \cup {msrc}
    /\ active_workers' = active_workers_after_terminate
    /\ mpc' = "loop"
    /\ UNCHANGED <<inputVars, work_units, next_unit, found_solution, msrc, mkeep, result,
                   wpc, wsol, ompVars>>

(* the while loop ends: free(work_units); return found_solution *)
mpi_master_exit ==
    /\ sched = "mpi" /\ mpc = "loop" /\ active_workers <= 0
    /\ MasterSendsComplete
    /\ result' = [done |-> TRUE, found |-> found_solution]
    /\ mpc' = "done"
    /\ UNCHANGED <<inputVars, work_units, next_unit, found_solution, active_workers, solution,
                   msrc, mkeep, wpc, wsol, toMaster, toWorker, term_sent, ompVars>>

(* mpi_worker: the first MPI_Send of the loop *)
mpi_worker_request(w) ==
    /\ sched = "mpi" /\ nprocs > 1 /\ wpc[w] = "start"
    /\ toMaster' = [toMaster EXCEPT ![w] = Append(@, Msg("WORK_REQUEST", FALSE))]
    /\ wpc' = [wpc EXCEPT ![w] = "req_sent"]
    /\ UNCHANGED <<inputVars, masterVars, wsol, toWorker, ompVars>>

(* mpi_worker: MPI_Recv of the reply, the solve, and the send that follows it *)
mpi_worker_recv(w) ==
    /\ sched = "mpi" /\ wpc[w] = "req_sent"
    /\ WorkerSendsComplete(w)
    /\ toWorker[w] # << >>
    /\ LET m == Head(toWorker[w])
       IN /\ toWorker' = [toWorker EXCEPT ![w] = Tail(@)]
          /\ IF m.tag = "TERMINATE"
             THEN /\ wpc' = [wpc EXCEPT ![w] = "done"]
                  /\ UNCHANGED <<wsol, toMaster>>
             ELSE LET r == SolveUnit(puzzle, m.body)
                  IN /\ wsol' = [wsol EXCEPT ![w] = r.sol]
                     /\ IF r.ok
                        THEN /\ toMaster' = [toMaster EXCEPT ![w] =
                                                Append(@, Msg("WORK_REQUEST", TRUE))]
                             /\ wpc' = [wpc EXCEPT ![w] = "found_sent"]
                        ELSE /\ toMaster' = [toMaster EXCEPT ![w] =
                                                Append(@, Msg("WORK_REQUEST", FALSE))]
                             /\ wpc' = [wpc EXCEPT ![w] = "req_sent"]
    /\ UNCHANGED <<inputVars, masterVars, ompVars>>

(* mpi_worker: MPI_Send of the solution grid *)
mpi_worker_send_data(w) ==
    /\ sched = "mpi" /\ wpc[w] = "found_sent"
    /\ WorkerSendsComplete(w)
    /\ toMaster' = [toMaster EXCEPT ![w] = Append(@, Msg("SOLUTION_DATA", wsol[w]))]
    /\ wpc' = [wpc EXCEPT ![w] = "data_sent"]
    /\ UNCHANGED <<inputVars, masterVars, wsol, toWorker, ompVars>>

(* a worker that leaves after SOLUTION_DATA without waiting for the master *)
mpi_worker_exit_unacknowledged(w) ==
    /\ sched = "mpi" /\ wpc[w] = "data_sent"
    /\ wpc' = [wpc EXCEPT ![w] = "done"]
    /\ UNCHANGED <<inputVars, masterVars, wsol, toMaster, toWorker, ompVars>>
(* mpi_worker: the final MPI_Recv with TAG_TERMINATE *)
mpi_worker_recv_terminate(w) ==
    /\ sched = "mpi" /\ wpc[w] = "data_sent"
    /\ WorkerSendsComplete(w)
    /\ HasTag(toWorker[w], {"TERMINATE"})
    /\ toWorker' = [toWorker EXCEPT ![w] = RemoveAt(@, FirstWith(@, {"TERMINATE"}))]
    /\ wpc' = [wpc EXCEPT ![w] = "done"]
    /\ UNCHANGED <<inputVars, masterVars, wsol, toMaster, ompVars>>


(* ---------------- OpenMP scheduler (openmp/futoshiki_omp.c) ---------------- *)
(* a read of found_solution that may see the flag set before any task has set it *)
ReadFound_sees_unset_flag_set == {TRUE, FALSE}
(* an unsynchronised read of found_solution: it may miss a concurrent write *)
ReadFound == IF found_solution THEN {TRUE, FALSE} ELSE {FALSE}

(* color_g up to the parallel region *)
omp_color_g_start ==
    /\ sched = "omp" /\ mpc = "start"
    /\ LET target_tasks == NumThreads * 4
           depth == calculate_task_depth(puzzle, target_tasks)
           units == generate_work_units(puzzle, depth, OMP_UNIT_LIMIT)
       IN IF depth = 0 \/ Len(units) = 0
          THEN LET r == color_g_seq(puzzle, puzzle.board, 0, 0)
               IN /\ solution' = r.sol
                  /\ result' = [done |-> TRUE, found |-> r.ok]
                  /\ mpc' = "done"
                  /\ UNCHANGED <<work_units, found_solution, ompVars>>
          ELSE /\ work_units' = units
               /\ found_solution' = FALSE
               /\ omp_i' = 0
               /\ tpc' = [i \in 1..Len(units) |-> "unspawned"]
               /\ tlocal' = [i \in 1..Len(units) |-> ZeroGrid(puzzle.size)]
               /\ mpc' = "spawn"
               /\ UNCHANGED <<solution, result>>
    /\ UNCHANGED <<inputVars, next_unit, active_workers, msrc, mkeep, wpc, wsol, toMaster,
                   toWorker, term_sent>>

(* one test of the spawn loop's condition and, if it holds, one "omp task" *)
omp_spawn ==
    /\ sched = "omp" /\ mpc = "spawn"
    /\ \E seen \in ReadFound :
          IF omp_i < Len(work_units) /\ ~seen
          THEN /\ tpc' = [tpc EXCEPT ![omp_i + 1] = "ready"]
               /\ omp_i' = omp_i + 1
               /\ mpc' = mpc
          ELSE /\ mpc' = "taskwait"
               /\ UNCHANGED <<tpc, omp_i>>
    /\ UNCHANGED <<inputVars, work_units, next_unit, found_solution, active_workers, solution,
                   msrc, mkeep, result, wpc, wsol, toMaster, toWorker, term_sent, tlocal>>

(* a thread runs task i up to the critical section *)
omp_task_run(i) ==
    /\ sched = "omp" /\ mpc \in {"spawn", "taskwait"} /\ tpc[i] = "ready"
    /\ Cardinality({j \in 1..Len(tpc) : tpc[j] = "at_critical"}) < NumThreads
    /\ \E seen \in ReadFound :
          IF seen
          THEN /\ tpc' = [tpc EXCEPT ![i] = "done"]
               /\ UNCHANGED tlocal
          ELSE LET r == SolveUnit(puzzle, work_units[i])
               IN /\ tlocal' = [tlocal EXCEPT ![i] = r.sol]
                  /\ tpc' = [tpc EXCEPT ![i] = IF r.ok THEN "at_critical" ELSE "done"]
    /\ UNCHANGED <<inputVars, masterVars, wpc, wsol, toMaster, toWorker, omp_i>>

(* a critical section that copies local_solution without looking at the flag *)
omp_no_recheck == TRUE
(* the "if (!found_solution)" re-check inside "omp critical" *)
omp_recheck == ~found_solution

(* task i inside "omp critical" *)
omp_task_critical(i) ==
    /\ sched = "omp" /\ tpc[i] = "at_critical"
    /\ IF omp_recheck
       THEN /\ found_solution' = TRUE
            /\ solution' = tlocal[i]
       ELSE UNCHANGED <<found_solution, solution>>
    /\ tpc' = [tpc EXCEPT ![i] = "done"]
    /\ UNCHANGED <<inputVars, mpc, work_units, next_unit, active_workers, msrc, mkeep, result,
                   wpc, wsol, toMaster, toWorker, term_sent, omp_i, tlocal>>

(* "omp taskwait" returns, then color_g returns found_solution *)
omp_taskwait ==
    /\ sched = "omp" /\ mpc = "taskwait"
    /\ \A i \in 1..Len(tpc) : tpc[i] \in {"unspawned", "done"}
    /\ result' = [done |-> TRUE, found |-> found_solution]
    /\ mpc' = "done"
    /\ UNCHANGED <<inputVars, work_units, next_unit, found_solution, active_workers, solution,
                   msrc, mkeep, wpc, wsol, toMaster, toWorker, term_sent, ompVars>>

(* ---------------- hybrid scheduler (hybrid/futoshiki_hybrid.c) ---------------- *)
(* color_g with g_mpi_size == 1 *)
hybrid_color_g_single ==
    /\ sched = "hybrid" /\ nprocs = 1 /\ mpc = "start"
    /\ \E r \in solve_work_unit_omp(puzzle, WholePuzzleUnit, solution) :
          /\ solution' = r.sol
          /\ result' = [done |-> TRUE, found |-> r.ok]
    /\ mpc' = "done"
    /\ UNCHANGED <<inputVars, work_units, next_unit, found_solution, active_workers, msrc,
                   mkeep, wpc, wsol, toMaster, toWorker, term_sent, ompVars>>

(* hybrid_master up to the distribution loop *)
hybrid_master_start ==
    /\ sched = "hybrid" /\ nprocs > 1 /\ mpc = "start"
    /\ LET num_workers == IF nprocs > 1 THEN nprocs - 1 ELSE 1
           target_tasks == get_target_tasks(num_workers, G_MPI_TASK_FACTOR, 1)
           depth == calculate_distribution_depth(puzzle, target_tasks)
           units == generate_work_units(puzzle, depth, WORK_UNIT_LIMIT)
       IN IF Len(units) = 0
          THEN /\ \E r \in solve_work_unit_omp(puzzle, WholePuzzleUnit, solution) :
                     /\ solution' = r.sol
                     /\ result' = [done |-> TRUE, found |-> r.ok]
               /\ mpc' = "done"
               /\ UNCHANGED <<work_units, next_unit, found_solution, active_workers>>
          ELSE /\ work_units' = units
               /\ next_unit' = 0
               /\ found_solution' = FALSE
               /\ active_workers' = num_workers
               /\ mpc' = "loop"
               /\ UNCHANGED <<solution, result>>
    /\ UNCHANGED <<inputVars, msrc, mkeep, wpc, wsol, toMaster, toWorker, term_sent, ompVars>>

(* a master that receives every SOLUTION_DATA into solution *)
hybrid_always_first_solution == TRUE
(* the "if (!found_solution)" test that decides between solution and temp_sol *)
hybrid_is_first_solution == ~found_solution

(* a master that stops distributing only when the list is exhausted *)
hybrid_terminate_when_exhausted == next_unit >= Len(work_units)
(* "if (found_solution || next_unit >= num_units)": reply TERMINATE to a WORK_REQUEST *)
hybrid_must_terminate == found_solution \/ next_unit >= Len(work_units)

(* one iteration of hybrid_master's while loop, up to its next blocking receive *)
hybrid_master_recv(w) ==
    /\ sched = "hybrid" /\ mpc = "loop" /\ active_workers > 0
    /\ MasterSendsComplete
    /\ toMaster[w] # << >>
    /\ Head(toMaster[w]).tag \in {"SOLUTION_FOUND", "WORK_REQUEST"}
    /\ toMaster' = [toMaster EXCEPT ![w] = Tail(@)]
    /\ IF Head(toMaster[w]).tag = "SOLUTION_FOUND"
       THEN /\ found_solution' = TRUE
            /\ mkeep' = hybrid_is_first_solution
            /\ msrc' = w
            /\ mpc' = "recv_data"
            /\ UNCHANGED <<toWorker, term_sent, active_workers, next_unit>>
       ELSE IF hybrid_must_terminate
       THEN /\ toWorker' = [toWorker EXCEPT ![w] = Append(@, Msg("TERMINATE", 0))]
            /\ term_sent' = term_sent \cup {w}
            /\ active_workers' = active_workers_after_terminate
            /\ UNCHANGED <<found_solution, mpc, msrc, mkeep, next_unit>>
       ELSE /\ toWorker' = [toWorker EXCEPT ![w] =
                               Append(@, Msg("WORK_ASSIGNMENT", work_units[next_unit + 1]))]
            /\ next_unit' = next_unit + 1
            /\ UNCHANGED <<found_solution, mpc, msrc, mkeep, term_sent, active_workers>>
    /\ UNCHANGED <<inputVars, work_units, solution, result, wpc, wsol, ompVars>>

(* the master's MPI_Recv of SOLUTION_DATA (into solution or into temp_sol) and the
   TERMINATE that follows it *)
hybrid_master_recv_data ==
    /\ sched = "hybrid" /\ mpc = "recv_data"
    /\ HasTag(toMaster[msrc], {"SOLUTION_DATA"})
    /\ LET i == FirstWith(toMaster[msrc], {"SOLUTION_DATA"})
       IN /\ solution' = IF mkeep THEN toMaster[msrc][i].body ELSE solution
          /\ toMaster' = [toMaster EXCEPT ![msrc] = RemoveAt(@, i)]
    /\ toWorker' = [toWorker EXCEPT ![msrc] = Append(@, Msg("TERMINATE", 0))]
    /\ term_sent' = term_sent \cup {msrc}
    /\ active_workers' = active_workers_after_terminate
    /\ mpc' = "loop"
    /\ UNCHANGED <<inputVars, work_units, next_unit, found_solution, msrc, mkeep, result,
                   wpc, wsol, ompVars>>

(* the while loop ends: free(work_units); return found_solution *)
hybrid_master_exit ==
    /\ sched = "hybrid" /\ mpc = "loop" /\ active_workers <= 0
    /\ MasterSendsComplete
    /\ result' = [done |-> TRUE, found |-> found_solution]
    /\ mpc' = "done"
    /\ UNCHANGED <<inputVars, work_units, next_unit, found_solution, active_workers, solution,
                   msrc, mkeep, wpc, wsol, toMaster, toWorker, term_sent, ompVars>>

(* hybrid_worker: the first MPI_Send of the loop *)
hybrid_worker_request(w) ==
    /\ sched = "hybrid" /\ nprocs > 1 /\ wpc[w] = "start"
    /\ toMaster' = [toMaster EXCEPT ![w] = Append(@, Msg("WORK_REQUEST", 1))]
    /\ wpc' = [wpc EXCEPT ![w] = "req_sent"]
    /\ UNCHANGED <<inputVars, masterVars, wsol, toWorker, ompVars>>

(* a worker that applies the received unit to the caller's puzzle instead of a copy *)
puzzle_written_in_place(P, received_wu) ==
    [P EXCEPT !.board = apply_work_unit(P, received_wu)]
(* the caller's puzzle after solve_work_unit_omp: the unit is applied to sub_puzzle, a
   memcpy of the puzzle, and the tasks read sub_puzzle only *)
puzzle_after_solve_work_unit(P, received_wu) == P

(* hybrid_worker: MPI_Recv of the reply, solve_work_unit_omp, and the send after it *)
hybrid_worker_recv(w) ==
    /\ sched = "hybrid" /\ wpc[w] = "req_sent"
    /\ WorkerSendsComplete(w)
    /\ toWorker[w] # << >>
    /\ LET m == Head(toWorker[w])
       IN /\ toWorker' = [toWorker EXCEPT ![w] = Tail(@)]
          /\ IF m.tag = "TERMINATE"
             THEN /\ wpc' = [wpc EXCEPT ![w] = "done"]
                  /\ UNCHANGED <<wsol, toMaster, puzzle>>
             ELSE \E r \in solve_work_unit_omp(puzzle, m.body, wsol[w]) :
                     /\ wsol' = [wsol EXCEPT ![w] = r.sol]
                     /\ puzzle' = puzzle_after_solve_work_unit(puzzle, m.body)
                     /\ IF r.ok
                        THEN /\ toMaster' = [toMaster EXCEPT ![w] =
                                                Append(@, Msg("SOLUTION_FOUND", 1))]
                             /\ wpc' = [wpc EXCEPT ![w] = "found_sent"]
                        ELSE /\ toMaster' = [toMaster EXCEPT ![w] =
                                                Append(@, Msg("WORK_REQUEST", 1))]
                             /\ wpc' = [wpc EXCEPT ![w] = "req_sent"]
    /\ UNCHANGED <<sched, nprocs, sync_send, use_precoloring, colors_removed, masterVars,
                   ompVars>>

(* hybrid_worker: MPI_Send of local_solution *)
hybrid_worker_send_data(w) ==
    /\ sched = "hybrid" /\ wpc[w] = "found_sent"
    /\ WorkerSendsComplete(w)
    /\ toMaster' = [toMaster EXCEPT ![w] = Append(@, Msg("SOLUTION_DATA", wsol[w]))]
    /\ wpc' = [wpc EXCEPT ![w] = "data_sent"]
    /\ UNCHANGED <<inputVars, masterVars, wsol, toWorker, ompVars>>

(* hybrid_worker: the final MPI_Recv with TAG_TERMINATE *)
hybrid_worker_recv_terminate(w) ==
    /\ sched = "hybrid" /\ wpc[w] = "data_sent"
    /\ WorkerSendsComplete(w)
    /\ HasTag(toWorker[w], {"TERMINATE"})
    /\ toWorker' = [toWorker EXCEPT ![w] = RemoveAt(@, FirstWith(@, {"TERMINATE"}))]
    /\ wpc' = [wpc EXCEPT ![w] = "done"]
    /\ UNCHANGED <<inputVars, masterVars, wsol, toMaster, ompVars>>

NextOMP ==
    \/ omp_color_g_start
    \/ omp_spawn
    \/ \E i \in 1..Len(tpc) : omp_task_run(i)
    \/ \E i \in 1..Len(tpc) : omp_task_critical(i)
    \/ omp_taskwait

NextHybrid ==
    \/ hybrid_color_g_single
    \/ hybrid_master_start
    \/ \E w \in Workers : hybrid_master_recv(w)
    \/ hybrid_master_recv_data
    \/ hybrid_master_exit
    \/ \E w \in Workers : hybrid_worker_request(w)
    \/ \E w \in Workers : hybrid_worker_recv(w)
    \/ \E w \in Workers : hybrid_worker_send_data(w)
    \/ \E w \in Workers : hybrid_worker_recv_terminate(w)

NextSeq == seq_color_g

NextMPI ==
    \/ mpi_color_g_single
    \/ mpi_master_start
    \/ \E w \in Workers : mpi_master_recv(w)
    \/ mpi_master_recv_data
    \/ mpi_master_exit
    \/ \E w \in Workers : mpi_worker_request(w)
    \/ \E w \in Workers : mpi_worker_recv(w)
    \/ \E w \in Workers : mpi_worker_send_data(w)
    \/ \E w \in Workers : mpi_worker_recv_terminate(w)

SpecSeq == InitFor({"seq"}, TRUE) /\ [][NextSeq]_vars
SpecMPI == InitFor({"mpi"}, FALSE) /\ [][NextMPI]_vars
SpecOMP == InitFor({"omp"}, FALSE) /\ [][NextOMP]_vars
SpecHybrid == InitFor({"hybrid"}, FALSE) /\ [][NextHybrid]_vars

Next == NextSeq \/ NextOMP \/ NextMPI \/ NextHybrid
Spec == Init /\ [][Next]_vars

NextInter == NextMPI \/ NextHybrid

(* ---------------- the pre-colouring pass as a step of its own ---------------- *)
(* the state after read_puzzle_from_file, before compute_pc_lists *)
InitParsed ==
    /\ sched = "seq" /\ nprocs = 1 /\ sync_send = FALSE
    /\ use_precoloring \in BOOLEAN
    /\ \E n \in 1..MaxSize : \E g \in GivenSets(n) : \E k \in ConsSets(n) :
          puzzle = ParsedPuzzle(n, g, k)
    /\ colors_removed = 0
    /\ mpc = "parsed"
    /\ work_units = << >> /\ next_unit = 0 /\ found_solution = FALSE /\ active_workers = 0
    /\ solution = ZeroGrid(puzzle.size)
    /\ msrc = 0 /\ mkeep = FALSE
    /\ result = [done |-> FALSE, found |-> FALSE]
    /\ wpc = << >> /\ wsol = << >> /\ toMaster = << >> /\ toWorker = << >>
    /\ term_sent = {}
    /\ omp_i = 0 /\ tpc = << >> /\ tlocal = << >>

(* solve_puzzle: stats.colors_removed = compute_pc_lists(&puzzle, use_precoloring) *)
solve_puzzle_precolor ==
    /\ mpc = "parsed"
    /\ LET pc == compute_pc_lists(puzzle, use_precoloring)
       IN /\ puzzle' = pc.puzzle
          /\ colors_removed' = pc.removed
    /\ mpc' = "start"
    /\ UNCHANGED <<sched, nprocs, sync_send, use_precoloring, work_units, next_unit,
                   found_solution, active_workers, solution, msrc, mkeep, result, wpc, wsol,
                   toMaster, toWorker, term_sent, ompVars>>

NextPrecolor == solve_puzzle_precolor \/ seq_color_g
SpecPrecolor == InitParsed /\ [][NextPrecolor]_vars

(* the same step on boards with up to MaxDenseGivens pre-set cells and no inequality *)
InitParsedDense ==
    /\ sched = "seq" /\ nprocs = 1 /\ sync_send = FALSE
    /\ use_precoloring \in BOOLEAN
    /\ \E n \in 1..MaxSize : \E g \in DenseGivenSets(n) :
          puzzle = ParsedPuzzle(n, g, {})
    /\ colors_removed = 0
    /\ mpc = "parsed"
    /\ work_units = << >> /\ next_unit = 0 /\ found_solution = FALSE /\ active_workers = 0
    /\ solution = ZeroGrid(puzzle.size)
    /\ msrc = 0 /\ mkeep = FALSE
    /\ result = [done |-> FALSE, found |-> FALSE]
    /\ wpc = << >> /\ wsol = << >> /\ toMaster = << >> /\ toWorker = << >>
    /\ term_sent = {}
    /\ omp_i = 0 /\ tpc = << >> /\ tlocal = << >>
SpecPrecolorDense == InitParsedDense /\ [][NextPrecolor]_vars

(* scenario S4: the 3x3 puzzle with pre-set cells [[1,1,0],[0,0,0],[0,0,0]] and no
   inequality *)
S4Puzzle == ParsedPuzzle(3, {<< <<0, 0>>, 1 >>, << <<0, 1>>, 1 >>}, {})
(* the empty 3x3 puzzle with (0,0) < (0,1) < (0,2) and (1,0) < (1,1): pre-colouring
   leaves one candidate in each of its nine cells *)
ChainPuzzle ==
    ParsedPuzzle(3, {}, {<< << <<0, 0>>, "h" >>, SMALLER >>, << << <<0, 1>>, "h" >>, SMALLER >>,
                         << << <<1, 0>>, "h" >>, SMALLER >>})
(* a named puzzle on every scheduler *)
InitScenario(P) ==
    /\ sched \in {"seq", "omp", "mpi", "hybrid"}
    /\ nprocs \in (IF sched \in {"mpi", "hybrid"} THEN 1..MaxProcs ELSE {1})
    /\ sync_send \in (IF sched \in {"mpi", "hybrid"} /\ nprocs > 1 THEN BOOLEAN ELSE {FALSE})
    /\ use_precoloring \in BOOLEAN
    /\ LET pc == compute_pc_lists(P, use_precoloring)
       IN /\ puzzle = pc.puzzle
          /\ colors_removed = pc.removed
    /\ mpc = "start"
    /\ work_units = << >>
    /\ next_unit = 0
    /\ found_solution = FALSE
    /\ active_workers = 0
    /\ solution = ZeroGrid(puzzle.size)
    /\ msrc = 0
    /\ mkeep = FALSE
    /\ result = [done |-> FALSE, found |-> FALSE]
    /\ wpc = [w \in Workers |-> "start"]
    /\ wsol = [w \in Workers |-> ZeroGrid(puzzle.size)]
    /\ toMaster = [w \in Workers |-> << >>]
    /\ toWorker = [w \in Workers |-> << >>]
    /\ term_sent = {}
    /\ omp_i = 0
    /\ tpc = << >>
    /\ tlocal = << >>
InitS4 == InitScenario(S4Puzzle)
InitChain == InitScenario(ChainPuzzle)
SpecScenarios == (Init \/ InitS4 \/ InitChain) /\ [][Next]_vars

(* the MPI scheduler with the enumerator's safety limit scaled down from 10 000 to
   ScaledUnitLimit, so that the unit list of a small puzzle is cut at the limit *)
NextMPIScaled ==
    \/ mpi_color_g_single
    \/ mpi_master_start_scaled
    \/ \E w \in Workers : mpi_master_recv(w)
    \/ mpi_master_recv_data
    \/ mpi_master_exit
    \/ \E w \in Workers : mpi_worker_request(w)
    \/ \E w \in Workers : mpi_worker_recv(w)
    \/ \E w \in Workers : mpi_worker_send_data(w)
    \/ \E w \in Workers : mpi_worker_recv_terminate(w)
SpecMPIScaled == InitFor({"mpi"}, FALSE) /\ [][NextMPIScaled]_vars

(* the master's unit generation alone, on the whole puzzle family *)
NextUnits == mpi_master_start
InitUnits ==
    /\ sync_send = FALSE
    /\ nprocs \in 2..MaxProcs
    /\ InitFor({"mpi"}, TRUE)
SpecUnits == InitUnits /\ [][NextUnits]_vars
SpecInter == InitFor({"mpi", "hybrid"}, FALSE) /\ [][NextInter]_vars

(* ---------------- hybrid scheduler, the dispatcher that returns no flag
   (hybrid/futoshiki_hybrid.c, second translation unit) ---------------- *)
g_mpi_task_factor_dispatcher == 32

(* solve_work_unit_with_omp: one task per safe colour of the first empty cell of the
   board with the unit applied; the set of (found, solution) pairs it can return; buf
   is the caller's solution buffer, left alone when no task succeeds *)
solve_work_unit_with_omp(P, work_unit, buf) ==
    LET initial_board == apply_work_unit(P, work_unit)
        empties == {c \in Cells(P.size) : initial_board[c] = EMPTY}
    IN IF empties = {} THEN {[ok |-> TRUE, sol |-> initial_board]}
       ELSE LET start == CHOOSE c \in empties : \A d \in empties :
                             c[1] * P.size + c[2] <= d[1] * P.size + d[2]
                run(i) == color_g_seq(P, [initial_board EXCEPT
                                             ![start] = P.pc_list[start][i]],
                                      start[1], start[2] + 1)
                winners == {i \in 1..Len(P.pc_list[start]) :
                               /\ safe(P, start[1], start[2], initial_board, P.pc_list[start][i])
                               /\ run(i).ok}
            IN IF winners = {} THEN {[ok |-> FALSE, sol |-> buf]}
               ELSE {run(i) : i \in winners}

(* color_g_hybrid with g_mpi_size <= 1 *)
color_g_hybrid_single ==
    /\ sched = "hybrid" /\ nprocs = 1 /\ mpc = "start"
    /\ \E r \in solve_work_unit_with_omp(puzzle, WholePuzzleUnit, solution) :
          /\ solution' = r.sol
          /\ result' = [done |-> TRUE, found |-> r.ok]
    /\ mpc' = "done"
    /\ UNCHANGED <<inputVars, work_units, next_unit, found_solution, active_workers, msrc,
                   mkeep, wpc, wsol, toMaster, toWorker, term_sent, ompVars>>

(* what color_g_hybrid returns on rank 0 after mpi_master: "solution[0][0] != 0" *)
color_g_hybrid_found(sol) == sol[<<0, 0>>] # 0

(* mpi_master of the dispatcher up to the distribution loop; with no unit it copies
   the board, runs color_g_seq, drops its result and returns to color_g_hybrid *)
dispatcher_master_start ==
    /\ sched = "hybrid" /\ nprocs > 1 /\ mpc = "start"
    /\ LET num_workers == IF nprocs > 1 THEN nprocs - 1 ELSE 1
           target_tasks == get_target_tasks(num_workers, g_mpi_task_factor_dispatcher, 1)
           depth == calculate_distribution_depth(puzzle, target_tasks)
           units == generate_work_units(puzzle, depth, WORK_UNIT_LIMIT)
       IN IF Len(units) = 0
          THEN LET r == color_g_seq(puzzle, puzzle.board, 0, 0)
               IN /\ solution' = r.sol
                  /\ result' = [done |-> TRUE, found |-> color_g_hybrid_found(r.sol)]
                  /\ mpc' = "done"
                  /\ UNCHANGED <<work_units, next_unit, found_solution, active_workers>>
          ELSE /\ work_units' = units
               /\ next_unit' = 0
               /\ found_solution' = FALSE
               /\ active_workers' = nprocs - 1
               /\ mpc' = "loop"
               /\ UNCHANGED <<solution, result>>
    /\ UNCHANGED <<inputVars, msrc, mkeep, wpc, wsol, toMaster, toWorker, term_sent, ompVars>>

(* the while loop of the dispatcher's mpi_master ends; color_g_hybrid returns *)
dispatcher_master_exit ==
    /\ sched = "hybrid" /\ mpc = "loop" /\ active_workers <= 0
    /\ MasterSendsComplete
    /\ result' = [done |-> TRUE, found |-> color_g_hybrid_found(solution)]
    /\ mpc' = "done"
    /\ UNCHANGED <<inputVars, work_units, next_unit, found_solution, active_workers, solution,
                   msrc, mkeep, wpc, wsol, toMaster, toWorker, term_sent, ompVars>>

(* the dispatcher's mpi_worker: MPI_Recv of the reply, solve_work_unit_with_omp, and
   the send after it *)
dispatcher_worker_recv(w) ==
    /\ sched = "hybrid" /\ wpc[w] = "req_sent"
    /\ WorkerSendsComplete(w)
    /\ toWorker[w] # << >>
    /\ LET m == Head(toWorker[w])
       IN /\ toWorker' = [toWorker EXCEPT ![w] = Tail(@)]
          /\ IF m.tag = "TERMINATE"
             THEN /\ wpc' = [wpc EXCEPT ![w] = "done"]
                  /\ UNCHANGED <<wsol, toMaster>>
             ELSE \E r \in solve_work_unit_with_omp(puzzle, m.body, wsol[w]) :
                     /\ wsol' = [wsol EXCEPT ![w] = r.sol]
                     /\ IF r.ok
                        THEN /\ toMaster' = [toMaster EXCEPT ![w] =
                                                Append(@, Msg("SOLUTION_FOUND", 1))]
                             /\ wpc' = [wpc EXCEPT ![w] = "found_sent"]
                        ELSE /\ toMaster' = [toMaster EXCEPT ![w] =
                                                Append(@, Msg("WORK_REQUEST", 1))]
                             /\ wpc' = [wpc EXCEPT ![w] = "req_sent"]
    /\ UNCHANGED <<inputVars, masterVars, ompVars>>

(* the dispatcher's master loop and the worker's sends and final receive are those of
   hybrid_master and hybrid_worker *)
NextDispatcher ==
    \/ color_g_hybrid_single
    \/ dispatcher_master_start
    \/ \E w \in Workers : hybrid_master_recv(w)
    \/ hybrid_master_recv_data
    \/ dispatcher_master_exit
    \/ \E w \in Workers : hybrid_worker_request(w)
    \/ \E w \in Workers : dispatcher_worker_recv(w)
    \/ \E w \in Workers : hybrid_worker_send_data(w)
    \/ \E w \in Workers : hybrid_worker_recv_terminate(w)
SpecDispatcher == InitFor({"hybrid"}, FALSE) /\ [][NextDispatcher]_vars

(* ======================= properties ======================= *)
AllExited == result.done /\ \A w \in Workers : wpc[w] = "done"
SeqFound == color_g_seq(puzzle, puzzle.board, 0, 0).ok

(* the master's MPI_Recv in the distribution loop has a message it can take from w *)
MasterCanReceive(w) ==
    IF sched = "mpi"
    THEN HasTag(toMaster[w], {"WORK_REQUEST"})
    ELSE toMaster[w] # << >> /\ Head(toMaster[w]).tag \in {"SOLUTION_FOUND", "WORK_REQUEST"}

(* the master is inside an MPI_Send or MPI_Recv that cannot return in this state *)
MasterBlocked ==
    \/ mpc = "loop" /\ ~MasterSendsComplete
    \/ mpc = "loop" /\ active_workers > 0 /\ ~\E w \in Workers : MasterCanReceive(w)
    \/ mpc = "recv_data" /\ ~HasTag(toMaster[msrc], {"SOLUTION_DATA"})

(* worker w is inside an MPI_Send or MPI_Recv that cannot return in this state *)
WorkerBlocked(w) ==
    \/ wpc[w] = "req_sent" /\ ~(WorkerSendsComplete(w) /\ toWorker[w] # << >>)
    \/ wpc[w] = "found_sent" /\ ~WorkerSendsComplete(w)
    \/ wpc[w] = "data_sent" /\ ~(WorkerSendsComplete(w) /\ HasTag(toWorker[w], {"TERMINATE"}))

Quiescent ==
    /\ result.done \/ MasterBlocked
    /\ \A w \in Workers : wpc[w] = "done" \/ WorkerBlocked(w)

(* C1: every scheduler terminates: whenever no process can take another step, the
   master (or the only process) has returned and every worker has left its loop, so
   no process is left blocked forever in a send or a receive. *)
C1_AllProcessesExit == Quiescent => AllExited

(* C2: once the master and all workers of the MPI scheduler have exited, no message
   is left in flight in either direction. *)
C2_NoOutstandingMessages ==
    AllExited => \A w \in Workers : toMaster[w] = << >> /\ toWorker[w] = << >>

(* C3: a worker is sent TERMINATE only when no SOLUTION_DATA of that worker is still
   unsent or unreceived: a late solution report is drained before its TERMINATE. *)
C3_DrainBeforeTerminate ==
    \A w \in term_sent :
        wpc[w] # "found_sent" /\ ~HasTag(toMaster[w], {"SOLUTION_DATA"})

(* C4: with two or more processes the master returns only after it has sent
   TERMINATE to every worker 1..P-1. *)
C4_TerminateAllBeforeExit == (result.done /\ nprocs >= 2) => term_sent = Workers

(* C5: when the master's unit list is empty and P >= 2, the master has sent TERMINATE
   to all workers and its result is the sequential backtracker's result. *)
C5_FallbackTerminatesThenSolves ==
    (result.done /\ nprocs >= 2 /\ work_units = << >>)
        => (term_sent = Workers /\ result.found = SeqFound)

(* C6: every scheduler reports found exactly when the sequential backtracker does,
   and every reported solution is valid. *)
C6_SchedulerEquivalence ==
    result.done => /\ result.found = SeqFound
                   /\ result.found => ValidSolution(puzzle, solution)

(* C7: when color_g_seq returns true, the grid is full, has no repeated value in a
   row or column, satisfies every inequality and equals board on pre-set cells. *)
C7_BacktrackerSound ==
    (sched = "seq" /\ result.done /\ result.found) => ValidSolution(puzzle, solution)

(* C8: with pre-colouring, C4 from (0,0) finds a solution iff the puzzle is
   satisfiable. *)
C8_BacktrackerComplete ==
    (sched = "seq" /\ result.done /\ use_precoloring) => (result.found <=> Satisfiable(puzzle))

(* C9: a solution reported by the OpenMP, MPI or hybrid scheduler is valid, and when
   it comes from distributed units it is exactly one worker's (one task's) grid. *)
C9_ReportedSolutionValid ==
    (sched \in {"omp", "mpi", "hybrid"} /\ result.done /\ result.found)
        => /\ ValidSolution(puzzle, solution)
           /\ (nprocs >= 2 /\ work_units # << >>) => \E w \in Workers : solution = wsol[w]
           /\ (sched = "omp" /\ work_units # << >>)
                 => \E i \in 1..Len(tlocal) : solution = tlocal[i]

(* C10: the master records the SOLUTION_DATA of the first solution report it
   processes, and once recorded the solution grid is never changed again. *)
C10_SingleSolutionRecorded ==
    [][ /\ solution' # solution => solution = ZeroGrid(puzzle.size)
        /\ (mpc = "recv_data" /\ mpc' = "loop" /\ solution = ZeroGrid(puzzle.size))
              => solution' = wsol[msrc] ]_vars
(* a second solution report has been drained after the first was recorded *)
C10_Witness ==
    /\ found_solution /\ mpc = "loop" /\ msrc # 0
    /\ \E w \in term_sent : w # msrc /\ wpc[w] \in {"data_sent", "done"}
                            /\ wsol[w] # ZeroGrid(puzzle.size) /\ wsol[w] # solution

(* C11: inside the OpenMP parallel region the shared solution grid is written only by
   a task that is in the critical section and finds found_solution still unset; that
   task sets the flag, the flag is never reset, so the grid is written once. *)
C11_SingleCriticalWrite ==
    [][ /\ (mpc \in {"spawn", "taskwait"} /\ solution' # solution)
              => /\ ~found_solution /\ found_solution'
                 /\ \E i \in 1..Len(tpc) :
                       tpc[i] = "at_critical" /\ tpc'[i] = "done" /\ solution' = tlocal[i]
        /\ (mpc \in {"spawn", "taskwait"} /\ found_solution) => found_solution' ]_vars
(* two tasks completed different solutions and both have left the critical section *)
C11_Witness ==
    /\ sched = "omp" /\ found_solution
    /\ \E i \in 1..Len(tpc) : \E j \in 1..Len(tpc) :
          /\ i # j /\ tpc[i] = "done" /\ tpc[j] = "done"
          /\ ValidSolution(puzzle, tlocal[i]) /\ ValidSolution(puzzle, tlocal[j])
          /\ tlocal[i] # tlocal[j] /\ solution = tlocal[i]

LastMsg(q) == q[Len(q)]
(* the master, staying in its distribution loop, takes a message of w off the channel *)
MasterAnswers(w) ==
    mpc = "loop" /\ mpc' = "loop" /\ Len(toMaster'[w]) < Len(toMaster[w])
(* a message with tag t is added to the channel from the master to w *)
MasterSends(w, t) ==
    Len(toWorker'[w]) > Len(toWorker[w]) /\ LastMsg(toWorker'[w]).tag = t
(* unit number k, counted from 1 *)
UnitNumbers == 1..Len(work_units)

(* C12: the master answers a WORK_REQUEST with TERMINATE when it holds a solution or
   the unit list is exhausted, otherwise with WORK_ASSIGNMENT of the next unit; no
   WORK_ASSIGNMENT is sent once the master holds a solution. *)
C12_WorkRequestReply ==
    [][ \A w \in Workers :
          /\ MasterAnswers(w) =>
                IF found_solution \/ next_unit >= Len(work_units)
                THEN toWorker'[w] = Append(toWorker[w], Msg("TERMINATE", 0))
                ELSE toWorker'[w] =
                        Append(toWorker[w], Msg("WORK_ASSIGNMENT", work_units[next_unit + 1]))
          /\ found_solution => ~MasterSends(w, "WORK_ASSIGNMENT") ]_vars
(* a worker that never got a unit was terminated while units were left, because the
   master already held a solution *)
C12_Witness ==
    /\ found_solution /\ mpc = "loop" /\ next_unit < Len(work_units)
    /\ \E w \in term_sent : w # msrc /\ wsol[w] = ZeroGrid(puzzle.size)

(* C13: the k-th WORK_ASSIGNMENT carries unit k and goes to one worker only: an
   assignment is always work_units[next_unit + 1], it advances next_unit by one, and
   next_unit changes in no other way. *)
C13_UnitsInListOrder ==
    [][ /\ \A w \in Workers :
              MasterSends(w, "WORK_ASSIGNMENT") =>
                 /\ next_unit + 1 \in UnitNumbers
                 /\ toWorker'[w] =
                       Append(toWorker[w], Msg("WORK_ASSIGNMENT", work_units[next_unit + 1]))
                 /\ next_unit' = next_unit + 1
                 /\ \A v \in Workers \ {w} : toWorker'[v] = toWorker[v]
        /\ (mpc = "loop" /\ next_unit' # next_unit) =>
              \E w \in Workers : MasterSends(w, "WORK_ASSIGNMENT") ]_vars
(* the whole list of two or more units has been handed out *)
C13_Witness ==
    /\ sched \in {"mpi", "hybrid"} /\ Len(work_units) >= 2 /\ next_unit = Len(work_units)

(* the worker's solution announcement: tag SOLUTION_FOUND in the hybrid scheduler, a
   TAG_WORK_REQUEST message carrying true in the MPI scheduler *)
Announcement == IF sched = "mpi" THEN Msg("WORK_REQUEST", TRUE) ELSE Msg("SOLUTION_FOUND", 1)
PlainRequest == IF sched = "mpi" THEN Msg("WORK_REQUEST", FALSE) ELSE Msg("WORK_REQUEST", 1)

(* C14: a worker whose unit succeeds sends the announcement, then SOLUTION_DATA with
   its grid, sends nothing else, and exits only by taking a TERMINATE; a worker whose
   unit fails sends a new WORK_REQUEST. *)
C14_WorkerProtocol ==
    [][ \A w \in Workers :
          /\ (wpc[w] = "req_sent" /\ Len(toWorker'[w]) < Len(toWorker[w])
                  /\ Head(toWorker[w]).tag = "WORK_ASSIGNMENT") =>
                LET r == IF sched = "mpi" THEN {SolveUnit(puzzle, Head(toWorker[w]).body)}
                         ELSE solve_work_unit_omp(puzzle, Head(toWorker[w]).body, wsol[w])
                IN \/ /\ \E x \in r : x.ok
                      /\ wpc'[w] = "found_sent"
                      /\ toMaster'[w] = Append(toMaster[w], Announcement)
                   \/ /\ \E x \in r : ~x.ok
                      /\ wpc'[w] = "req_sent"
                      /\ toMaster'[w] = Append(toMaster[w], PlainRequest)
          /\ (wpc[w] = "found_sent" /\ wpc'[w] # wpc[w]) =>
                /\ wpc'[w] = "data_sent"
                /\ toMaster'[w] = Append(toMaster[w], Msg("SOLUTION_DATA", wsol[w]))
          /\ (wpc[w] = "data_sent") => Len(toMaster'[w]) <= Len(toMaster[w])
          /\ (wpc[w] # "done" /\ wpc'[w] = "done") =>
                /\ HasTag(toWorker[w], {"TERMINATE"})
                /\ Len(toWorker'[w]) = Len(toWorker[w]) - 1
          /\ wpc[w] = "done" => (wpc'[w] = "done" /\ Len(toMaster'[w]) <= Len(toMaster[w])) ]_vars
(* the only worker failed on its first unit, asked again, succeeded on the second
   and has exited after the master's TERMINATE *)
C14_Witness ==
    /\ nprocs = 2 /\ next_unit = 2 /\ found_solution
    /\ wpc[1] = "done" /\ wsol[1] = solution /\ 1 \in term_sent

(* the grid a unit stands for after its first j assignments *)
PrefixGrid(P, wu, j) == ApplyFrom(P.board, [depth |-> j, assignments |-> wu.assignments], 1)
UnitIsPrefixOf(wu, G) ==
    \A j \in 1..wu.depth : G[<<wu.assignments[j][1], wu.assignments[j][2]>>] = wu.assignments[j][3]
UnitCap == IF sched = "mpi" THEN MPI_UNIT_LIMIT ELSE WORK_UNIT_LIMIT

(* C15: cover: once the master has generated its units for a satisfiable puzzle and
   the cap was not hit, at least one unit is a prefix of a valid solution. *)
C15_Cover ==
    (nprocs >= 2 /\ mpc # "start" /\ Len(work_units) < UnitCap /\ Satisfiable(puzzle))
        => \E i \in 1..Len(work_units) : \E G \in SolutionsOf(puzzle) :
              UnitIsPrefixOf(work_units[i], G)
(* a satisfiable puzzle with one unit that leads to a solution and one that does not *)
C15_Witness ==
    /\ mpc = "loop" /\ Satisfiable(puzzle)
    /\ \E i \in 1..Len(work_units) : \E G \in SolutionsOf(puzzle) : UnitIsPrefixOf(work_units[i], G)
    /\ \E i \in 1..Len(work_units) : \A G \in SolutionsOf(puzzle) : ~UnitIsPrefixOf(work_units[i], G)

(* C16: every assignment of every emitted unit targets an empty cell and passes safe
   against the board plus the unit's earlier assignments. *)
C16_UnitsSafe ==
    \A i \in 1..Len(work_units) :
        LET wu == work_units[i]
        IN /\ wu.depth = Len(wu.assignments)
           /\ \A j \in 1..wu.depth :
                 LET a == wu.assignments[j]
                     S == PrefixGrid(puzzle, wu, j - 1)
                 IN /\ S[<<a[1], a[2]>>] = EMPTY
                    /\ safe(puzzle, a[1], a[2], S, a[3])
(* two or more units, each with two or more assignments *)
C16_Witness ==
    /\ mpc = "loop" /\ Len(work_units) >= 2
    /\ \A i \in 1..Len(work_units) : work_units[i].depth >= 2

(* ---------------- the pre-colouring pass ---------------- *)
PassDone == mpc # "parsed"
IsGiven(c) == puzzle.board[c] # EMPTY
SameLine(c, d) == c # d /\ (c[1] = d[1] \/ c[2] = d[2])
HasCandidate(c, v) == \E i \in 1..Len(puzzle.pc_list[c]) : puzzle.pc_list[c][i] = v
RECURSIVE SumOver(_, _)
SumOver(P, S) ==
    IF S = {} THEN 0
    ELSE LET c == CHOOSE x \in S : TRUE IN Len(P.pc_list[c]) + SumOver(P, S \ {c})
TotalCandidates(P) == SumOver(P, Cells(P.size))

(* C17: after compute_pc_lists every pre-set cell has exactly one candidate, its own
   board value. *)
C17_GivenIsSoleCandidate ==
    PassDone => \A c \in Cells(puzzle.size) :
                   IsGiven(c) => puzzle.pc_list[c] = << puzzle.board[c] >>

(* C18: after the pre-colouring pass every candidate left in an empty cell satisfies
   satisfies_inequalities against the final candidate lists of its neighbours. *)
C18_CandidatesArcConsistent ==
    (PassDone /\ use_precoloring) =>
        \A c \in Cells(puzzle.size) :
            ~IsGiven(c) =>
                \A i \in 1..Len(puzzle.pc_list[c]) :
                    satisfies_inequalities(puzzle, c[1], c[2], puzzle.pc_list[c][i])

(* C19: after the pre-colouring pass the value of a singleton candidate list occurs
   in no other candidate list of the same row or column. *)
C19_SingletonsPropagated ==
    (PassDone /\ use_precoloring) =>
        \A c \in Cells(puzzle.size) :
            Len(puzzle.pc_list[c]) = 1 =>
                \A d \in Cells(puzzle.size) :
                    SameLine(c, d) => ~HasCandidate(d, puzzle.pc_list[c][1])
(* an empty cell was reduced to one candidate by the inequalities, and an empty cell
   of its row or column lost that value but kept another *)
C19_Witness ==
    /\ PassDone /\ use_precoloring
    /\ \A c \in Cells(puzzle.size) : ~IsGiven(c)
    /\ \E c \in Cells(puzzle.size) : \E d \in Cells(puzzle.size) :
          /\ SameLine(c, d) /\ Len(puzzle.pc_list[c]) = 1
          /\ Len(puzzle.pc_list[d]) >= 1 /\ ~HasCandidate(d, puzzle.pc_list[c][1])

(* C20: the number compute_pc_lists returns is the sum of the initial candidate-list
   lengths minus the sum of the final candidate-list lengths. *)
C20_RemovedCountExact ==
    PassDone => colors_removed = TotalCandidates(InitPcLists(puzzle)) - TotalCandidates(puzzle)

(* C21: running compute_pc_lists again on a puzzle on which it has completed leaves
   every candidate list, content and length, as the first run left it. *)
C21_PrecolorIdempotent ==
    PassDone => compute_pc_lists(puzzle, use_precoloring).puzzle.pc_list = puzzle.pc_list
(* the first run shortened the list of an empty cell and left it non-empty *)
C21_Witness ==
    /\ PassDone /\ use_precoloring
    /\ \E c \in Cells(puzzle.size) :
          ~IsGiven(c) /\ Len(puzzle.pc_list[c]) \in 1..(puzzle.size - 1)

(* C22: when some candidate list is empty after compute_pc_lists, the pass has returned
   and color_g_seq run from (0,0) afterwards returns false. *)
SomeListEmpty == \E c \in Cells(puzzle.size) : Len(puzzle.pc_list[c]) = 0
C22_EmptyListFailsCleanly ==
    (PassDone /\ SomeListEmpty /\ result.done) => ~result.found

(* C23: on the S4 puzzle every scheduler, with and without pre-colouring and for every
   process count, reports found_solution = false, and no process is left blocked. *)
IsS4 ==
    /\ puzzle.size = S4Puzzle.size /\ puzzle.board = S4Puzzle.board
    /\ puzzle.h_cons = S4Puzzle.h_cons /\ puzzle.v_cons = S4Puzzle.v_cons
DepthCap(P) == Min(Len(find_empty_cells(P)), max_depth(P.size))
OmpTargetTasks == NumThreads * 4
MpiTarget == nprocs - 1
HybridTarget == get_target_tasks(nprocs - 1, G_MPI_TASK_FACTOR, 1)
Calibrated == mpc # "start" /\ (sched = "omp" \/ (sched \in {"mpi", "hybrid"} /\ nprocs > 1))

(* C24: the depth a calibrator returns never exceeds
   min(number of empty cells, max_depth(size)). *)
C24_DepthWithinCap ==
    Calibrated =>
        /\ sched = "omp" => calculate_task_depth(puzzle, OmpTargetTasks) <= DepthCap(puzzle)
        /\ sched = "mpi" =>
              mpi_calculate_distribution_depth(puzzle, MpiTarget) <= DepthCap(puzzle)
        /\ sched = "hybrid" =>
              calculate_distribution_depth(puzzle, HybridTarget) <= DepthCap(puzzle)

(* the safe-consistent prefixes of length d: colour sequences for the first d empty
   cells in row-major order, each colour a candidate of its cell and safe against the
   board and the colours before it *)
GridOfPrefix(P, p) ==
    LET ec == find_empty_cells(P)
    IN [c \in Cells(P.size) |->
          IF \E i \in 1..Len(p) : ec[i] = c
          THEN p[CHOOSE i \in 1..Len(p) : ec[i] = c] ELSE P.board[c]]
RECURSIVE Prefixes(_, _)
Prefixes(P, d) ==
    IF d = 0 THEN {<< >>}
    ELSE LET c == find_empty_cells(P)[d]
         IN {Append(p, P.pc_list[c][i]) :
                <<p, i>> \in {q \in Prefixes(P, d - 1) \X (1..Len(P.pc_list[c])) :
                                 safe(P, c[1], c[2], GridOfPrefix(P, q[1]), P.pc_list[c][q[2]])}}
PrefixCount(P, d) == Cardinality(Prefixes(P, d))
SmallestExceedingOrCap(P, T, d) ==
    LET cap == DepthCap(P)
        enough == {e \in 1..cap : PrefixCount(P, e) > T}
    IN IF enough = {} THEN d = cap
       ELSE d \in enough /\ \A e \in enough : d <= e

(* C25: for a puzzle with an empty cell and a target T >= 1 the counting calibrators
   return the smallest depth whose number of safe-consistent prefixes exceeds T, and
   the cap when no depth up to the cap has more than T prefixes. *)
C25_SmallestSufficientDepth ==
    (Calibrated /\ Len(find_empty_cells(puzzle)) >= 1) =>
        /\ sched = "mpi" =>
              SmallestExceedingOrCap(puzzle, MpiTarget,
                                     mpi_calculate_distribution_depth(puzzle, MpiTarget))
        /\ sched = "hybrid" =>
              SmallestExceedingOrCap(puzzle, HybridTarget,
                                     calculate_distribution_depth(puzzle, HybridTarget))

(* the number of tasks each intra-node calibrator leads to for target T *)
OmpTasksAt(P, T) == Len(generate_work_units(P, calculate_task_depth(P, T), OMP_UNIT_LIMIT))
SharedTasksAt(P, T) ==
    Len(generate_work_units(P, calculate_distribution_depth(P, T), WORK_UNIT_LIMIT))
Targets == 1..OmpTargetTasks

(* C26: for a fixed puzzle the number of tasks generated at the depth calibrated for a
   target never decreases when the target grows. *)
C26_TasksMonotoneInTarget ==
    (sched = "omp" /\ mpc # "start") =>
        \A T1 \in Targets : \A T2 \in Targets :
            T1 <= T2 => /\ OmpTasksAt(puzzle, T1) <= OmpTasksAt(puzzle, T2)
                        /\ SharedTasksAt(puzzle, T1) <= SharedTasksAt(puzzle, T2)

(* ---------------- the enumerator ---------------- *)
(* every depth up to one past the number of empty cells *)
Depths(P) == 0..(Len(find_empty_cells(P)) + 1)
CountAt(P, d) ==
    count_valid_assignments_recursive(P, P.board, find_empty_cells(P),
                                      Len(find_empty_cells(P)), 0, d)
UnitsGenerated == sched \in {"mpi", "hybrid"} /\ nprocs > 1 /\ mpc # "start"

(* C27: for every depth d, as long as the unit cap is not reached, the number
   count_valid_assignments_recursive returns for the first d empty cells is the number
   of WorkUnits generate_work_units emits for depth d. *)
C27_CountEqualsUnits ==
    UnitsGenerated =>
        /\ nprocs = 2 =>   \* neither side depends on the process count
              \A d \in Depths(puzzle) :
                 LET units == generate_work_units(puzzle, d, UnitCap)
                 IN Len(units) < UnitCap => CountAt(puzzle, d) = Len(units)
        /\ (work_units # << >> /\ Len(work_units) < UnitCap) =>
              Len(work_units) = CountAt(puzzle, work_units[1].depth)
(* the master holds several units of depth 2 or more, fewer of them than the candidate
   lists of the first two empty cells alone would allow *)
C27_Witness ==
    /\ UnitsGenerated /\ Len(work_units) >= 2 /\ work_units[1].depth >= 2
    /\ LET ec == find_empty_cells(puzzle)
       IN Len(work_units) < Len(puzzle.pc_list[ec[1]]) * Len(puzzle.pc_list[ec[2]])

(* the target depth handed to the enumerator by the scheduler of this run *)
CalibratedDepth ==
    CASE sched = "omp" -> calculate_task_depth(puzzle, OmpTargetTasks)
      [] sched = "mpi" -> mpi_calculate_distribution_depth(puzzle, MpiTarget)
      [] sched = "hybrid" -> calculate_distribution_depth(puzzle, HybridTarget)
      [] OTHER -> 0
RowMajor(c) == c[1] * puzzle.size + c[2]
EmptyInBoard == {c \in Cells(puzzle.size) : puzzle.board[c] = EMPTY}
UnitCell(wu, j) == <<wu.assignments[j][1], wu.assignments[j][2]>>

(* the enumerator has just returned and no process has moved since *)
JustEnumerated ==
    \/ sched = "omp" /\ mpc = "spawn" /\ omp_i = 0
    \/ /\ sched \in {"mpi", "hybrid"} /\ nprocs > 1 /\ mpc = "loop" /\ next_unit = 0
       /\ \A w \in Workers : wpc[w] = "start"

(* C28: every WorkUnit emitted for target depth d has exactly min(d, number of empty
   cells) assignments, each to a cell that is empty in board; the assigned cells are
   the first empty cells in row-major order, listed in strictly increasing order. *)
C28_GivensUseNoDepth ==
    JustEnumerated => \A i \in 1..Len(work_units) :
        LET wu == work_units[i]
            k == Min(CalibratedDepth, Cardinality(EmptyInBoard))
        IN /\ wu.depth = k /\ Len(wu.assignments) = k
           /\ \A j \in 1..k : UnitCell(wu, j) \in EmptyInBoard
           /\ \A j \in 1..(k - 1) : RowMajor(UnitCell(wu, j)) < RowMajor(UnitCell(wu, j + 1))
           /\ {UnitCell(wu, j) : j \in 1..k}
                = {c \in EmptyInBoard :
                     Cardinality({e \in EmptyInBoard : RowMajor(e) < RowMajor(c)}) < k}
(* units of a puzzle whose first cell is pre-set, emitted for a target depth larger than
   the number of empty cells *)
C28_Witness ==
    /\ JustEnumerated /\ work_units # << >> /\ puzzle.board[<<0, 0>>] # EMPTY
    /\ CalibratedDepth > Cardinality(EmptyInBoard)
    /\ work_units[1].depth = Cardinality(EmptyInBoard)
    /\ UnitCell(work_units[1], 1) # <<0, 0>>

(* the cap of the enumerator this run's scheduler uses *)
EnumeratorCap ==
    CASE sched = "omp" -> OMP_UNIT_LIMIT
      [] sched = "mpi" -> MPI_UNIT_LIMIT
      [] OTHER -> WORK_UNIT_LIMIT
(* the enumeration with a cap no list can reach *)
Uncapped(P, d) == generate_work_units(P, d, P.size ^ (P.size * P.size) + 1)
IsPrefixOf(s, t) == Len(s) <= Len(t) /\ s = SubSeq(t, 1, Len(s))
CapRespected ==
    LET full == Uncapped(puzzle, CalibratedDepth)
    IN /\ Len(work_units) <= EnumeratorCap
       /\ work_units # << >> => IsPrefixOf(work_units, full)
       /\ \A limit \in 1..(Len(full) + 1) :
             LET capped == generate_work_units(puzzle, CalibratedDepth, limit)
             IN Len(capped) = Min(limit, Len(full)) /\ IsPrefixOf(capped, full)

(* C29: the enumerator never emits more WorkUnits than its cap, and a list cut at the
   cap is a prefix of the list the uncapped enumeration produces. *)
C29_CapTruncatesToPrefix == JustEnumerated => CapRespected
(* the scheduler holds a list of at least two units, of which a cap of 1 keeps the
   first *)
C29_Witness ==
    /\ JustEnumerated /\ Len(work_units) >= 2
    /\ generate_work_units(puzzle, CalibratedDepth, 1) = SubSeq(work_units, 1, 1)

(* the unit list was cut: it is as long as the scaled limit and the uncapped enumeration
   at the same depth is longer *)
Truncated ==
    /\ Len(work_units) = ScaledUnitLimit
    /\ Len(Uncapped(puzzle, CalibratedDepth)) > ScaledUnitLimit

(* C30: when the unit list was truncated at the cap, the scheduler still reports what
   the search without truncation reports: found exactly when color_g_seq finds a
   solution. *)
C30_TruncationKeepsResult ==
    (sched = "mpi" /\ nprocs > 1 /\ result.done /\ Truncated) => (result.found <=> SeqFound)

(* ---------------- frame of the schedulers ---------------- *)
(* C31: after the pre-colouring pass no scheduler step changes the board, the
   inequalities or a candidate list of the puzzle; a worker's grid is written only
   by the step in which that worker takes its reply, and a task's grid only by a step
   of that task. *)
C31_PuzzleReadOnly ==
    [][/\ puzzle' = puzzle
       /\ \A w \in Workers : wsol'[w] # wsol[w] => toWorker'[w] # toWorker[w]
       /\ DOMAIN tlocal' = DOMAIN tlocal =>
             \A i \in DOMAIN tlocal : tlocal'[i] # tlocal[i] => tpc'[i] # tpc[i]]_vars
(* a hybrid worker holds a completed grid for a puzzle whose board still has empty
   cells *)
C31_Witness ==
    /\ sched = "hybrid"
    /\ \E w \in Workers : \E c \in Cells(puzzle.size) :
          wpc[w] = "found_sent" /\ puzzle.board[c] = EMPTY /\ wsol[w][c] # EMPTY

(* ---------------- exit codes of the executables ---------------- *)
(* main of the sequential executable: the last statement is return 0, whatever
   solve_puzzle returned *)
main_seq(found) == 0
(* main of the OpenMP executable: the same *)
main_omp(found) == 0
(* main of the MPI executable: return stats.found_solution ? 0 : 1 *)
main_mpi(found) == IF found THEN 0 ELSE 1
(* main of the hybrid executable: return stats.found_solution ? 0 : 1 *)
main_hybrid(found) == IF found THEN 0 ELSE 1
(* the exit code of the master process of the running variant *)
exit_code ==
    CASE sched = "seq" -> main_seq(result.found)
      [] sched = "omp" -> main_omp(result.found)
      [] sched = "mpi" -> main_mpi(result.found)
      [] sched = "hybrid" -> main_hybrid(result.found)

(* C32: for every executable variant the exit code is 0 exactly when a solution was
   found, and 1 when none was found. *)
C32_ExitCodeReflectsFound ==
    result.done => /\ (exit_code = 0 <=> result.found)
                   /\ (~result.found => exit_code = 1)

(* ---------------- completing a unit ---------------- *)
(* C33: for every emitted unit u, color_g_seq from u's continuation point on the board
   with u applied returns true exactly when some valid solution extends u, and the
   grid it returns is then such a solution. *)
C33_UnitReentrancy ==
    \A i \in 1..Len(work_units) :
        LET wu == work_units[i]
            r == SolveUnit(puzzle, wu)
        IN /\ r.ok <=> \E G \in SolutionsOf(puzzle) : UnitIsPrefixOf(wu, G)
           /\ r.ok => (ValidSolution(puzzle, r.sol) /\ UnitIsPrefixOf(wu, r.sol))

(* ---------------- advisory reads of the flag ---------------- *)
TaskExecuted(i) == tpc[i] = "done" /\ tlocal[i] = SolveUnit(puzzle, work_units[i]).sol
TaskSkipped(i) == tpc[i] \in {"unspawned", "done"} /\ tlocal[i] = ZeroGrid(puzzle.size)
(* C34: whatever the interleaving and whatever the unsynchronised reads of
   found_solution return, the task scheduler returns true exactly when color_g_seq
   completes at least one emitted unit; when it returns false every unit's task ran
   color_g_seq to completion and failed. *)
C34_AdvisoryReadsLoseNothing ==
    (sched = "omp" /\ result.done /\ work_units # << >>)
        => /\ result.found <=> \E i \in 1..Len(work_units) : SolveUnit(puzzle, work_units[i]).ok
           /\ ~result.found => \A i \in 1..Len(work_units) :
                                    TaskExecuted(i) /\ ~SolveUnit(puzzle, work_units[i]).ok
(* the scheduler returned true after the task of a unit that color_g_seq can complete
   was skipped *)
C34_Witness ==
    /\ sched = "omp" /\ result.done /\ result.found
    /\ \E i \in 1..Len(work_units) :
          TaskSkipped(i) /\ SolveUnit(puzzle, work_units[i]).ok

(* ---------------- the grid after a failed search ---------------- *)
(* color_g_seq on grid S from (row, col) returned false and left the grid as the claim
   says: EMPTY in every cell at or after (row, col) that is empty in board, and the
   value of S in every cell before (row, col) *)
FailedRunResets(P, S, row, col) ==
    LET r == color_g_seq(P, S, row, col)
    IN ~r.ok => \A c \in Cells(P.size) :
                   /\ (RowMajor(c) >= row * P.size + col /\ P.board[c] = EMPTY)
                         => r.sol[c] = EMPTY
                   /\ RowMajor(c) < row * P.size + col => r.sol[c] = S[c]
UnitFails(wu) == ~SolveUnit(puzzle, wu).ok
(* C35: when color_g_seq returns false, every cell at or after the starting position
   that is empty in board holds EMPTY again and every cell before the starting
   position is unchanged; checked from (0,0) on the board and from the continuation
   point of every emitted unit on the board with the unit applied. *)
C35_FailureResetsGrid ==
    /\ FailedRunResets(puzzle, puzzle.board, 0, 0)
    /\ \A i \in 1..Len(work_units) :
          LET start == get_continuation_point(work_units[i])
          IN FailedRunResets(puzzle, apply_work_unit(puzzle, work_units[i]), start[1], start[2])
(* a unit whose completion fails after color_g_seq placed and took back a colour: some
   empty cell after the continuation point has a colour that is safe on the applied
   grid *)
C35_Witness ==
    \E i \in 1..Len(work_units) :
        LET wu == work_units[i]
            start == get_continuation_point(wu)
            S == apply_work_unit(puzzle, wu)
        IN /\ UnitFails(wu)
           /\ \E c \in Cells(puzzle.size) : \E v \in 1..puzzle.size :
                 /\ RowMajor(c) >= start[1] * puzzle.size + start[2]
                 /\ puzzle.board[c] = EMPTY
                 /\ HasCandidate(c, v) /\ safe(puzzle, c[1], c[2], S, v)

(* ---------------- the master's worker count ---------------- *)
InDistributionLoop == sched \in {"mpi", "hybrid"} /\ nprocs > 1 /\ mpc \in {"loop", "recv_data"}
TerminateSentTo(w) ==
    /\ Len(toWorker'[w]) = Len(toWorker[w]) + 1
    /\ LastMsg(toWorker'[w]).tag = "TERMINATE"
(* C36: throughout the master's distribution loop active_workers is the number of
   workers that have not been sent TERMINATE: it is P-1 when the loop is entered, goes
   down by one in exactly the steps that send a TERMINATE, to a worker that had none
   before, is never negative, and the loop is left exactly when it is 0. *)
C36_ActiveWorkersCount ==
    /\ [](InDistributionLoop =>
             /\ active_workers = (nprocs - 1) - Cardinality(term_sent)
             /\ active_workers >= 0)
    /\ [][/\ (mpc = "start" /\ mpc' = "loop") => active_workers' = nprocs - 1
          /\ InDistributionLoop =>
                /\ active_workers' # active_workers
                      => /\ active_workers' = active_workers - 1
                         /\ \E w \in Workers \ term_sent : TerminateSentTo(w)
                /\ \A w \in Workers : TerminateSentTo(w)
                      => (w \notin term_sent /\ active_workers' = active_workers - 1)
                /\ (mpc' = "done") <=> (active_workers = 0 /\ result'.done)
                /\ (active_workers = 0 /\ mpc' # "done") => UNCHANGED masterVars]_vars
(* the master left the loop after a solution was reported and every worker of three
   had been sent its TERMINATE *)
C36_Witness ==
    /\ nprocs = 3 /\ mpc = "done" /\ work_units # << >> /\ found_solution
    /\ active_workers = 0 /\ term_sent = Workers

(* ---------------- soundness of the pre-colouring pass ---------------- *)
(* C37: after the pre-colouring pass the candidate list of every cell still holds the
   value that cell has in any valid solution of the puzzle. *)
C37_PrecolorKeepsSolutions ==
    PassDone => \A G \in SolutionsOf(puzzle) : \A c \in Cells(puzzle.size) :
                   HasCandidate(c, G[c])
(* the pass removed values from an empty cell of a satisfiable puzzle *)
C37_Witness ==
    /\ PassDone /\ use_precoloring /\ Satisfiable(puzzle)
    /\ \E c \in Cells(puzzle.size) :
          puzzle.board[c] = EMPTY /\ Len(puzzle.pc_list[c]) < puzzle.size

(* ---------------- termination of the pre-colouring pass ---------------- *)
(* the number of rounds the do-while loop of compute_pc_lists runs on P, the last one
   being the round that changes no length; limit + 1 when the loop has not stopped
   after limit rounds *)
RECURSIVE PcRoundsWithin(_, _, _)
PcRoundsWithin(P, k, limit) ==
    IF k > limit THEN k
    ELSE LET r == PcRound(P, 0, 0)
         IN IF Lengths(r.puzzle) # Lengths(P) THEN PcRoundsWithin(r.puzzle, k + 1, limit)
            ELSE k
(* one round for every candidate the lists can hold, and two more *)
RoundLimit(P) == P.size * P.size * P.size + 2
PcRounds == PcRoundsWithin(InitPcLists(puzzle), 1, RoundLimit(puzzle))
ConflictingGivens ==
    \E c \in Cells(puzzle.size) : \E d \in Cells(puzzle.size) :
        SameLine(c, d) /\ IsGiven(c) /\ puzzle.board[c] = puzzle.board[d]
(* C38: the round loop of the pre-colouring pass stops on every puzzle, unsatisfiable
   ones and ones with conflicting pre-set cells included: it reaches a round that
   changes no list length within size^3 + 2 rounds. *)
C38_PrecolorTerminates ==
    use_precoloring => PcRounds <= RoundLimit(puzzle)
(* the pass has run on a puzzle with two equal pre-set values in one line and needed
   more than one round *)
C38_Witness ==
    /\ PassDone /\ use_precoloring /\ ConflictingGivens
    /\ PcRounds >= 2 /\ PcRounds <= RoundLimit(puzzle)

(* ---------------- the dispatcher's result ---------------- *)
(* C39: in the dispatcher that derives the master's result from the solution grid,
   the master returns true exactly when a worker reported a solution or the master's
   own fall-back run of color_g_seq succeeded; for a puzzle without a valid solution
   it returns false, also when cell (0,0) is pre-set. *)
C39_DispatcherResult ==
    (sched = "hybrid" /\ nprocs > 1 /\ result.done)
        => /\ result.found <=> \/ found_solution
                               \/ (work_units = << >> /\ SeqFound)
           /\ ~Satisfiable(puzzle) => ~result.found

(* ---------------- capacity of a unit's assignment array ---------------- *)
(* "int assignments[MAX_N * 3]": a WorkUnit holds max_n assignments, max_n being the
   largest puzzle size read_puzzle_from_file accepts *)
assignments_capacity(max_n) == max_n
(* the model's puzzles have sizes 1..MaxSize, so MaxSize stands for MAX_N *)
ScaledCapacity == assignments_capacity(MaxSize)
(* C40: the depth chosen by calculate_distribution_depth, and with it the number of
   assignments recorded in any unit of the master's list, never exceeds the number of
   assignments the array of a WorkUnit holds. *)
C40_DepthWithinCapacity ==
    (sched = "hybrid" /\ nprocs > 1 /\ mpc # "start")
        => /\ \A i \in 1..Len(work_units) :
                 /\ work_units[i].depth <= ScaledCapacity
                 /\ 3 * Len(work_units[i].assignments) <= ScaledCapacity * 3
           /\ JustEnumerated
                 => calculate_distribution_depth(puzzle, HybridTarget) <= ScaledCapacity

====
